---- MODULE Spec2Model ----
(***************************************************************************)
(* A model of the study-group automation scripts:                          *)
(*   - scripts/multi_test_runner.py : the per-problem test pipeline, the   *)
(*     verdict logic, the run summary and the exit status   (Spec)         *)
(*   - normalize_output / compare_outputs of the same script: the          *)
(*     comparison of a program's output with the expected one (SpecCompare)*)
(*   - scripts/update_readme.py : the weekly status table of README.md and *)
(*     the runs that record a solved problem in it    (SpecReadme)         *)
(*   - scripts/extract_pr_info.py : which problems a pull request holds    *)
(*     and which of them is tested                    (SpecExtract)        *)
(*   - scripts/send_success_notification.py, send_failure_notification.py, *)
(*     send_notification.py : where a notification goes and how the        *)
(*     script ends                                    (SpecNotify)         *)
(*   - scripts/fetch_boj_problem.py : the fetcher, and the runner's call   *)
(*     of it                                          (SpecFetch)          *)
(*   - the verdict logic of scripts/test_runner.py beside that of          *)
(*     multi_test_runner.py                           (SpecVerdict)        *)
(*   - run_test_suite of multi_test_runner.py, case by case (SpecSuite)    *)
(*   - test.py : the workflow step that calls update_readme.py for the     *)
(*     solved problems of a run                       (SpecDriver)         *)
(*   - create_participant_table and parse_current_week_stats of            *)
(*     update_readme.py, one after the other          (SpecTable)          *)
(*   - get_week_info of update_readme.py on two days  (SpecWeek)           *)
(*   - scripts/weekly_reset.py                        (SpecReset)          *)
(*   - the failure message of send_failure_notification.py, built from     *)
(*     the summary of multi_test_runner.py            (SpecFailure)        *)
(*                                                                         *)
(* Subprocesses (javac, java, the fetcher, the test generator) and the     *)
(* file system are the environment: their outcomes are chosen with \E.     *)
(***************************************************************************)
EXTENDS Integers, Sequences, FiniteSets, TLC

(***************************************************************************)
(* Bounds of the model.                                                    *)
(***************************************************************************)
\* at most this many problems in problems_info.json
MaxProblems == 2
\* at most this many test cases for one problem (sample and generated together)
MaxCases == 2
\* an output text has at most this many characters
MaxLen == 3

VARIABLES
    \* ---- multi_test_runner.py ----
    problems,     \* the list load_problems_info() returns
    pc,           \* main's position
    idx,          \* main's loop index (1-based) into problems
    ppc,          \* run_single_problem_test's position for the current problem
    result,       \* run_single_problem_test's local `result`
    obs,          \* what the environment did for the current problem (observation)
    infoFile,     \* problem_<id>_info.json exists
    sampleFile,   \* sample_<id>_tests.json: Absent or its list of test cases
    testsFile,    \* tests_<id>.json: Absent or its list of test cases
    test_result,  \* the TestResult of the current problem (the two suites' counts)
    results,      \* main's `results` list
    history,      \* the observations of the finished problems, in order
    summary,      \* generate_summary's value once computed, else NoSummary
    exit_code,    \* the process exit status, NotExited while running
    \* ---- compare_outputs ----
    expected,     \* the expected output, a sequence of characters
    actual,       \* the program's output, a sequence of characters
    problem_id,   \* the problem ID handed to compare_outputs, "None" if omitted
    outcome,      \* the call's return value once it has returned
    \* ---- update_readme.py ----
    readme,       \* README.md: missing, or its week header and status table
    today,        \* the day datetime.now() falls on, as a day number
    elapsed,      \* how many times the day has changed
    updates,      \* how many runs of update_readme.py there have been
    last,         \* the last run of today: its fact, what it loaded and returned
    \* ---- extract_pr_info.py ----
    gh,              \* the environment: PR_NUMBER / GITHUB_REPOSITORY and what `gh api` answers
    epc,             \* main's position
    pr_author,       \* main's pr_author
    changed_files,   \* main's changed_files
    author_files,    \* main's author_files
    primary_problem, \* main's primary_problem
    outputs,         \* the outputs set with set_github_output
    pr_analysis,     \* pr_analysis.json has been written
    extract_exit,    \* the exit status of extract_pr_info.py, NotExited while running
    \* ---- the notification scripts ----
    run,             \* the script that runs, its arguments and its environment
    npc,             \* the script's position
    webhook_url,     \* the destination the success or failure script resolved
    webhook_configs, \* send_notification.py's list of destinations
    deliveries,      \* the deliveries attempted so far, with what came of each
    success_count,   \* send_notification.py's success_count
    notify_exit,     \* the script's exit status, NotExited while running
    \* ---- fetch_boj_problem.py ----
    command_line,    \* the options the fetcher is started with
    by_runner,       \* the fetcher is started by search_problem_with_fetch_boj
    fpc,             \* the fetcher's position
    attempt,         \* the attempts advanced_crawling_strategy has made
    boj_details,     \* main's boj_details
    disk,            \* the files of the working directory
    fetch_exit,      \* the fetcher's exit status, NotExited while running
    search,          \* what search_problem_with_fetch_boj returned
    loaded_samples,  \* the samples run_single_problem_test loaded
    \* ---- the two verdicts ----
    tally,           \* the outcomes to judge: the compilation and the two suites
    multi_result,    \* result['result'] of multi_test_runner.py
    overall_result,   \* result.overall_result of test_runner.py
    \* ---- run_test_suite ----
    suite_cases,   \* test_cases of run_test_suite
    suite_problem,   \* problem_id of run_test_suite
    spc,   \* run_test_suite's position
    suite_i,   \* the loop index (1-based) into suite_cases
    suite_results,   \* results of run_test_suite
    processes,   \* the java processes started so far, with the case each one ran
    \* ---- test.py ----
    summary_file,   \* test_results_summary.json
    dpc,   \* the step's position
    successful_problems,   \* the details kept by line 13
    driver_i,   \* the loop index (1-based) into successful_problems
    invocations,   \* the calls of update_readme.py made so far
    driver_exit,   \* the exit status of the step
    \* ---- update_readme.py, the table written and read back ----
    mapping,   \* the participants given to create_participant_table
    table_day,   \* the day of the run
    tpc,   \* render, parse or done
    document,   \* README.md with the table written
    parsed,   \* what parse_current_week_stats returns for document
    \* ---- update_readme.py, get_week_info on two days ----
    date_a,   \* datetime.now() of a first run
    date_b,   \* datetime.now() of a second run
    week_a,   \* get_week_info() of the first run
    week_b,   \* get_week_info() of the second run
    computed,   \* which of the two runs have called get_week_info
    \* ---- weekly_reset.py ----
    reset_run,   \* the command line of weekly_reset.py and what the run finds
    rpc,   \* the script's position
    backup_written,   \* a README_backup_*.md was written
    readme_written,   \* README.md was written
    returned,   \* what main returned
    reset_exit,   \* the exit status
    \* ---- send_failure_notification.py, the message ----
    run_results,   \* the results of the problems of a run
    summary_json,   \* test_results_summary.json
    failure_details,   \* failure_details of send_failure_notification.py
    listed,   \* the details listed in the message
    fdpc   \* summary, message or done

runnerVars == <<problems, pc, idx, ppc, result, obs, infoFile, sampleFile,
                testsFile, test_result, results, history, summary, exit_code>>

compareVars == <<expected, actual, problem_id, outcome>>

readmeVars == <<readme, today, elapsed, updates, last>>

extractVars == <<gh, epc, pr_author, changed_files, author_files,
                 primary_problem, outputs, pr_analysis, extract_exit>>

notifyVars == <<run, npc, webhook_url, webhook_configs, deliveries,
                success_count, notify_exit>>

verdictVars == <<tally, multi_result, overall_result>>

fetchVars == <<command_line, by_runner, fpc, attempt, boj_details, disk,
               fetch_exit, search, loaded_samples>>

suiteVars == <<suite_cases, suite_problem, spc, suite_i, suite_results, processes>>

driverVars == <<summary_file, dpc, successful_problems, driver_i, invocations, driver_exit>>

tableVars == <<mapping, table_day, tpc, document, parsed>>

weekVars == <<date_a, date_b, week_a, week_b, computed>>

resetVars == <<reset_run, rpc, backup_written, readme_written, returned, reset_exit>>

failureVars == <<run_results, summary_json, failure_details, listed, fdpc>>

nonRunnerVars == <<compareVars, readmeVars, extractVars, notifyVars, fetchVars, verdictVars,
      suiteVars,
      driverVars,
      tableVars,
      weekVars,
      resetVars,
      failureVars>>
nonCompareVars == <<runnerVars, readmeVars, extractVars, notifyVars, fetchVars, verdictVars,
      suiteVars,
      driverVars,
      tableVars,
      weekVars,
      resetVars,
      failureVars>>
nonReadmeVars == <<runnerVars, compareVars, extractVars, notifyVars, fetchVars, verdictVars,
      suiteVars,
      driverVars,
      tableVars,
      weekVars,
      resetVars,
      failureVars>>
nonExtractVars == <<runnerVars, compareVars, readmeVars, notifyVars, fetchVars, verdictVars,
      suiteVars,
      driverVars,
      tableVars,
      weekVars,
      resetVars,
      failureVars>>
nonNotifyVars == <<runnerVars, compareVars, readmeVars, extractVars, fetchVars, verdictVars,
      suiteVars,
      driverVars,
      tableVars,
      weekVars,
      resetVars,
      failureVars>>
nonFetchVars ==
    <<runnerVars, compareVars, readmeVars, extractVars, notifyVars, verdictVars,
      suiteVars,
      driverVars,
      tableVars,
      weekVars,
      resetVars,
      failureVars>>
nonVerdictVars ==
    <<runnerVars, compareVars, readmeVars, extractVars, notifyVars, fetchVars,
      suiteVars,
      driverVars,
      tableVars,
      weekVars,
      resetVars,
      failureVars>>

nonSuiteVars ==
    <<runnerVars, compareVars, readmeVars, extractVars, notifyVars, verdictVars, fetchVars,
      driverVars,
      tableVars,
      weekVars,
      resetVars,
      failureVars>>

nonDriverVars ==
    <<runnerVars, compareVars, readmeVars, extractVars, notifyVars, verdictVars, fetchVars, suiteVars,
      tableVars,
      weekVars,
      resetVars,
      failureVars>>

nonTableVars ==
    <<runnerVars, compareVars, readmeVars, extractVars, notifyVars, verdictVars, fetchVars, suiteVars, driverVars,
      weekVars,
      resetVars,
      failureVars>>

nonWeekVars ==
    <<runnerVars, compareVars, readmeVars, extractVars, notifyVars, verdictVars, fetchVars, suiteVars, driverVars, tableVars,
      resetVars,
      failureVars>>

nonResetVars ==
    <<runnerVars, compareVars, readmeVars, extractVars, notifyVars, verdictVars, fetchVars, suiteVars, driverVars, tableVars, weekVars,
      failureVars>>

nonFailureVars ==
    <<runnerVars, compareVars, readmeVars, extractVars, notifyVars, verdictVars, fetchVars, suiteVars, driverVars, tableVars, weekVars, resetVars>>

vars == <<runnerVars, compareVars, readmeVars, extractVars, notifyVars, fetchVars,
          verdictVars,
      suiteVars,
      driverVars,
      tableVars,
      weekVars,
      resetVars,
      failureVars>>

(***************************************************************************)
(* Values.                                                                 *)
(***************************************************************************)
\* a test file: missing, or present with its list of test cases
Absent == [present |-> FALSE, cases |-> <<>>]
File(cases) == [present |-> TRUE, cases |-> cases]
\* no exit status yet
NotExited == -1

\* A test case is modelled by what running the compiled program on it gives:
\* exit status 0 in time with output compare_outputs accepts ("pass"), or
\* anything else ("wrong": rejected output, non-zero exit, timeout).
CaseOutcomes == {"pass", "wrong"}

RECURSIVE SeqsUpTo(_, _)
SeqsUpTo(S, n) ==
    IF n = 0 THEN {<<>>}
    ELSE LET shorter == SeqsUpTo(S, n - 1)
         IN  shorter \cup {Append(s, x) : s \in {t \in shorter : Len(t) = n - 1}, x \in S}

\* the test-case lists a test file may hold
CaseLists == SeqsUpTo(CaseOutcomes, MaxCases)
TestFiles == {File(cases) : cases \in CaseLists}

\* The records extract_pr_info.py writes to problems_info.json: the i-th problem
\* of a run. filter_author_files keeps only the files of the PR author.
ProblemPool(i) == [problem_id |-> 1000 + i, author |-> "alice"]

ZeroCounts == [total |-> 0, passed |-> 0, failed |-> 0]

\* TestResult.__init__
TestResult == [sample_tests |-> ZeroCounts, generated_tests |-> ZeroCounts]

NoObs == [code_exists |-> FALSE, compiled |-> "not_run", steps |-> <<>>]

\* run_single_problem_test, the initial `result` dictionary
InitialResult(problem) ==
    [problem_id |-> problem.problem_id,
     author |-> problem.author,
     result |-> "FAIL",
     search_success |-> FALSE,
     sample_tests |-> ZeroCounts,
     generated_tests |-> ZeroCounts,
     errors |-> <<>>]

NoResult == [problem_id |-> 0, author |-> "", result |-> "NONE",
             search_success |-> FALSE, sample_tests |-> ZeroCounts,
             generated_tests |-> ZeroCounts, errors |-> <<>>]

(***************************************************************************)
(* Pure functions of multi_test_runner.py.                                 *)
(***************************************************************************)

\* run_test_suite: one run of the program per test case, in order; a case counts
\* as passed iff its run is accepted.
RECURSIVE run_test_suite(_)
run_test_suite(test_cases) ==
    IF test_cases = <<>> THEN ZeroCounts
    ELSE LET rest == run_test_suite(Tail(test_cases))
             ok == Head(test_cases) = "pass"
         IN  [total |-> rest.total + 1,
              passed |-> rest.passed + (IF ok THEN 1 ELSE 0),
              failed |-> rest.failed + (IF ok THEN 0 ELSE 1)]

\* load_test_cases: the file's test_cases, or [] when the file is missing
load_test_cases(file) == IF ~file.present THEN <<>> ELSE file.cases

\* Verdict with the "samples pass, no generated test passes" case judged FAIL
VerdictGeneratedDecides(sample_tests, generated_tests) ==
    IF sample_tests.total = 0 /\ generated_tests.total = 0
    THEN [result |-> "PARTIAL_PASS", caveat |-> TRUE]
    ELSE IF sample_tests.total > 0
    THEN IF sample_tests.failed = 0
         THEN IF generated_tests.total = 0 \/ generated_tests.passed > 0
              THEN [result |-> "PASS", caveat |-> FALSE]
              ELSE [result |-> "FAIL", caveat |-> FALSE]
         ELSE IF sample_tests.passed > 0
         THEN [result |-> "PARTIAL_PASS", caveat |-> FALSE]
         ELSE [result |-> "FAIL", caveat |-> FALSE]
    ELSE IF generated_tests.passed > 0
         THEN [result |-> "PARTIAL_PASS", caveat |-> FALSE]
         ELSE [result |-> "FAIL", caveat |-> FALSE]

\* The verdict logic of run_single_problem_test (lines 435-465); the value is
\* the verdict and whether the "no test cases" caveat is appended to errors.
Verdict(sample_tests, generated_tests) ==
    LET total_sample_tests == sample_tests.total
        total_generated_tests == generated_tests.total
        sample_passed == sample_tests.passed
        generated_passed == generated_tests.passed
    IN  IF total_sample_tests = 0 /\ total_generated_tests = 0
        THEN [result |-> "PARTIAL_PASS", caveat |-> TRUE]
        ELSE IF total_sample_tests > 0
        THEN LET sample_all_passed == sample_tests.failed = 0
             IN  IF sample_all_passed
                 THEN IF total_generated_tests = 0 \/ generated_passed > 0
                      THEN [result |-> "PASS", caveat |-> FALSE]
                      ELSE [result |-> "PARTIAL_PASS", caveat |-> FALSE]
                 ELSE IF sample_passed > 0
                 THEN [result |-> "PARTIAL_PASS", caveat |-> FALSE]
                 ELSE [result |-> "FAIL", caveat |-> FALSE]
        ELSE IF generated_passed > 0
             THEN [result |-> "PARTIAL_PASS", caveat |-> FALSE]
             ELSE [result |-> "FAIL", caveat |-> FALSE]

\* len([r for r in results if r['result'] in verdicts])
CountResults(rs, verdicts) ==
    Cardinality({i \in 1..Len(rs) : rs[i].result \in verdicts})

\* generate_summary with only the full passes counted as success
generate_summary_PassOnly(rs) ==
    [overall_success |-> CountResults(rs, {"PASS"}) > 0,
     total_problems |-> Len(rs),
     passed_problems |-> CountResults(rs, {"PASS"}),
     partial_passed_problems |-> CountResults(rs, {"PARTIAL_PASS"}),
     failed_problems |-> CountResults(rs, {"FAIL", "COMPILATION_ERROR"}),
     error_problems |-> CountResults(rs, {"ERROR"}),
     details |-> rs]

\* generate_summary
generate_summary(rs) ==
    LET passed_problems == CountResults(rs, {"PASS"})
        partial_passed == CountResults(rs, {"PARTIAL_PASS"})
        failed_problems == CountResults(rs, {"FAIL", "COMPILATION_ERROR"})
        error_problems == CountResults(rs, {"ERROR"})
    IN  [overall_success |-> (passed_problems + partial_passed) > 0,
         total_problems |-> Len(rs),
         passed_problems |-> passed_problems,
         partial_passed_problems |-> partial_passed,
         failed_problems |-> failed_problems,
         error_problems |-> error_problems,
         details |-> rs]

\* main has not computed the summary yet
NoSummary ==
    [overall_success |-> FALSE, total_problems |-> -1, passed_problems |-> 0,
     partial_passed_problems |-> 0, failed_problems |-> 0, error_problems |-> 0,
     details |-> <<>>]

\* main, lines 592-595
ExitCodeOf(s) == IF s.overall_success THEN 0 ELSE 1

(***************************************************************************)
(* multi_test_runner.py: main and run_single_problem_test, step by step.   *)
(***************************************************************************)
n_problems == Len(problems)

InitRunner ==
    /\ problems \in {[i \in 1..n |-> ProblemPool(i)] : n \in 0..MaxProblems}
    /\ pc = "load"
    /\ idx = 1
    /\ ppc = "idle"
    /\ result = NoResult
    /\ obs = NoObs
    /\ infoFile = FALSE
    /\ sampleFile = Absent
    /\ testsFile = Absent
    /\ test_result = TestResult
    /\ results = <<>>
    /\ history = <<>>
    /\ summary = NoSummary
    /\ exit_code = NotExited

\* main, lines 517-522: no problems ends the run with status 1
LoadProblems ==
    /\ pc = "load"
    /\ IF problems = <<>>
       THEN pc' = "exited" /\ exit_code' = 1
       ELSE pc' = "loop" /\ exit_code' = exit_code
    /\ UNCHANGED nonRunnerVars
    /\ UNCHANGED <<problems, idx, ppc, result, obs, infoFile, sampleFile,
                   testsFile, test_result, results, history, summary>>

\* main, lines 530-533, and run_single_problem_test, lines 339-358
BeginProblem ==
    /\ pc = "loop"
    /\ ppc = "idle"
    /\ idx <= n_problems
    /\ result' = InitialResult(problems[idx])
    /\ obs' = NoObs
    /\ infoFile' = FALSE
    /\ sampleFile' = Absent
    /\ testsFile' = Absent
    /\ test_result' = TestResult
    /\ ppc' = "check_file"
    /\ UNCHANGED nonRunnerVars
    /\ UNCHANGED <<problems, pc, idx, results, history, summary, exit_code>>

\* run_single_problem_test, lines 361-365
CheckCodeFile ==
    /\ ppc = "check_file"
    /\ \E exists \in BOOLEAN :
        /\ obs' = [obs EXCEPT !.code_exists = exists,
                              !.steps = Append(@, "exists")]
        /\ IF ~exists
           THEN /\ result' = [result EXCEPT !.errors = Append(@, "no_code_file"),
                                            !.result = "ERROR"]
                /\ ppc' = "return"
           ELSE /\ result' = result
                /\ ppc' = "compile"
    /\ UNCHANGED nonRunnerVars
    /\ UNCHANGED <<problems, pc, idx, infoFile, sampleFile, testsFile,
                   test_result, results, history, summary, exit_code>>

\* AfterCompile with the failed compile recorded as a plain ERROR
AfterCompileAsError(res, compilation_success) ==
    IF ~compilation_success
    THEN [result |-> [res EXCEPT !.errors = Append(@, "compile_failed"),
                                 !.result = "ERROR"],
          ppc |-> "return"]
    ELSE [result |-> res, ppc |-> "search"]

\* AfterCompile without the early return after a failed compile
AfterCompileNoReturn(res, compilation_success) ==
    IF ~compilation_success
    THEN [result |-> [res EXCEPT !.errors = Append(@, "compile_failed"),
                                 !.result = "COMPILATION_ERROR"],
          ppc |-> "search"]
    ELSE [result |-> res, ppc |-> "search"]

\* run_single_problem_test, lines 369-372: the result and the next position
\* after compile_java_code returned
AfterCompile(res, compilation_success) ==
    IF ~compilation_success
    THEN [result |-> [res EXCEPT !.errors = Append(@, "compile_failed"),
                                 !.result = "COMPILATION_ERROR"],
          ppc |-> "return"]
    ELSE [result |-> res, ppc |-> "search"]

\* run_single_problem_test, lines 367-372; compile_java_code reports failure on
\* a non-zero javac exit, a timeout or an exception
Compile ==
    /\ ppc = "compile"
    /\ \E compilation_success \in BOOLEAN :
        /\ obs' = [obs EXCEPT !.compiled = IF compilation_success THEN "ok" ELSE "failed",
                              !.steps = Append(@, "javac")]
        /\ result' = AfterCompile(result, compilation_success).result
        /\ ppc' = AfterCompile(result, compilation_success).ppc
    /\ UNCHANGED nonRunnerVars
    /\ UNCHANGED <<problems, pc, idx, infoFile, sampleFile, testsFile,
                   test_result, results, history, summary, exit_code>>

\* create_fallback_files: an info file and two empty test files
FallbackFiles == [info |-> TRUE, sample |-> File(<<>>), tests |-> File(<<>>)]

\* run_single_problem_test, lines 378-397: the search, the fallback files after
\* a failed search, and the check of the required files. The fetcher is a
\* subprocess: its exit status and the files it leaves are the environment's.
Search ==
    /\ ppc = "search"
    /\ \E search_success \in BOOLEAN, info \in BOOLEAN, sample \in {Absent} \cup TestFiles :
        LET after_search ==
                IF search_success
                THEN [info |-> info, sample |-> sample, tests |-> Absent]
                ELSE FallbackFiles
            files ==
                IF ~after_search.info \/ after_search.sample = Absent
                THEN FallbackFiles
                ELSE after_search
        IN  /\ search_success \/ (~info /\ sample = Absent)
            /\ result' = [result EXCEPT
                    !.search_success = search_success,
                    !.errors = IF search_success THEN @ ELSE Append(@, "search_failed")]
            /\ infoFile' = files.info
            /\ sampleFile' = files.sample
            /\ testsFile' = files.tests
    /\ obs' = [obs EXCEPT !.steps = Append(@, "fetch")]
    /\ ppc' = "generate"
    /\ UNCHANGED nonRunnerVars
    /\ UNCHANGED <<problems, pc, idx, test_result, results, history, summary,
                   exit_code>>

\* run_single_problem_test, lines 399-410: the generator is a subprocess; when
\* it fails and left no tests file, an empty one is written
Generate ==
    /\ ppc = "generate"
    /\ \E test_gen_success \in BOOLEAN, written \in TestFiles \cup {testsFile} :
        /\ test_gen_success \/ written = testsFile
        /\ Len(sampleFile.cases) + Len(written.cases) <= MaxCases
        /\ result' = [result EXCEPT
                !.errors = IF test_gen_success THEN @ ELSE Append(@, "gen_failed")]
        /\ testsFile' = IF ~test_gen_success /\ written = Absent THEN File(<<>>) ELSE written
    /\ obs' = [obs EXCEPT !.steps = Append(@, "gemini")]
    /\ ppc' = "run_tests"
    /\ UNCHANGED nonRunnerVars
    /\ UNCHANGED <<problems, pc, idx, infoFile, sampleFile, test_result, results,
                   history, summary, exit_code>>

\* one "java" step per executed test case
JavaSteps(k) == [i \in 1..k |-> "java"]

\* run_single_problem_test, lines 412-423
RunTests ==
    /\ ppc = "run_tests"
    /\ LET sample_test_cases == load_test_cases(sampleFile)
           generated_test_cases == load_test_cases(testsFile)
       IN  /\ test_result' = [sample_tests |-> run_test_suite(sample_test_cases),
                              generated_tests |-> run_test_suite(generated_test_cases)]
           /\ obs' = [obs EXCEPT !.steps =
                        @ \o JavaSteps(Len(sample_test_cases) + Len(generated_test_cases))]
    /\ ppc' = "judge"
    /\ UNCHANGED nonRunnerVars
    /\ UNCHANGED <<problems, pc, idx, result, infoFile, sampleFile, testsFile,
                   results, history, summary, exit_code>>

\* run_single_problem_test, lines 425-471
Judge ==
    /\ ppc = "judge"
    /\ LET v == Verdict(test_result.sample_tests, test_result.generated_tests)
       IN  result' = [result EXCEPT
                !.result = v.result,
                !.errors = IF v.caveat THEN Append(@, "no_tests") ELSE @,
                !.sample_tests = test_result.sample_tests,
                !.generated_tests = test_result.generated_tests]
    /\ ppc' = "return"
    /\ UNCHANGED nonRunnerVars
    /\ UNCHANGED <<problems, pc, idx, obs, infoFile, sampleFile, testsFile,
                   test_result, results, history, summary, exit_code>>

\* Raise with the exception left uncaught: the process dies with status 1
RaiseUncaught ==
    /\ ppc \in {"search", "generate", "run_tests"}
    /\ obs' = [obs EXCEPT !.steps = Append(@, "raise")]
    /\ pc' = "exited"
    /\ ppc' = "dead"
    /\ exit_code' = 1
    /\ UNCHANGED nonRunnerVars
    /\ UNCHANGED <<problems, idx, result, infoFile, sampleFile, testsFile,
                   test_result, results, history, summary>>

\* run_single_problem_test, lines 483-486: an exception raised inside the inner
\* try (writing the fallback or the empty tests file fails, a test file holds
\* something that is not a list of objects) ends the problem with ERROR
Raise ==
    /\ ppc \in {"search", "generate", "run_tests"}
    /\ result' = [result EXCEPT
            !.search_success = IF ppc = "search" THEN FALSE ELSE @,
            !.errors = Append(IF ppc = "search" THEN Append(@, "search_failed")
                              ELSE IF ppc = "generate" THEN Append(@, "gen_failed")
                              ELSE @, "exception"),
            !.result = "ERROR"]
    /\ obs' = [obs EXCEPT !.steps = Append(@, "raise")]
    /\ ppc' = "return"
    /\ UNCHANGED nonRunnerVars
    /\ UNCHANGED <<problems, pc, idx, infoFile, sampleFile, testsFile,
                   test_result, results, history, summary, exit_code>>

\* run_single_problem_test, line 488 (after the cleanup of lines 473-481), and
\* main, line 534
ReturnResult ==
    /\ ppc = "return"
    /\ results' = Append(results, result)
    /\ history' = Append(history, obs)
    /\ idx' = idx + 1
    /\ ppc' = "idle"
    /\ result' = NoResult
    /\ obs' = NoObs
    /\ infoFile' = FALSE
    /\ sampleFile' = Absent
    /\ testsFile' = Absent
    /\ test_result' = TestResult
    /\ UNCHANGED nonRunnerVars
    /\ UNCHANGED <<problems, pc, summary, exit_code>>

\* main, lines 549-595: the summary, its report and the exit status
Summarize ==
    /\ pc = "loop"
    /\ ppc = "idle"
    /\ idx > n_problems
    /\ summary' = generate_summary(results)
    /\ exit_code' = ExitCodeOf(summary')
    /\ pc' = "exited"
    /\ UNCHANGED nonRunnerVars
    /\ UNCHANGED <<problems, idx, ppc, result, obs, infoFile, sampleFile,
                   testsFile, test_result, results, history>>

NextRunner ==
    \/ LoadProblems
    \/ BeginProblem
    \/ CheckCodeFile
    \/ Compile
    \/ Search
    \/ Generate
    \/ RunTests
    \/ Judge
    \/ Raise
    \/ ReturnResult
    \/ Summarize

(***************************************************************************)
(* multi_test_runner.py: normalize_output and compare_outputs.             *)
(* A text is a sequence of characters.                                     *)
(***************************************************************************)
\* the characters the output texts are made of
Chars == {"1", ".", " ", "\n"}
\* the characters of Chars that str.strip() removes
Whitespace == {" ", "\n"}
Texts == SeqsUpTo(Chars, MaxLen)

\* str.lstrip()
RECURSIVE lstrip(_)
lstrip(s) ==
    IF s # <<>> /\ Head(s) \in Whitespace THEN lstrip(Tail(s)) ELSE s

\* str.rstrip()
RECURSIVE rstrip(_)
rstrip(s) ==
    IF s # <<>> /\ s[Len(s)] \in Whitespace
    THEN rstrip(SubSeq(s, 1, Len(s) - 1))
    ELSE s

\* str.strip()
strip(s) == lstrip(rstrip(s))

\* str.split(sep) for a one-character separator: the pieces between the
\* separators, one piece more than there are separators
RECURSIVE split(_, _)
split(s, sep) ==
    IF \A i \in 1..Len(s) : s[i] # sep
    THEN <<s>>
    ELSE LET first == CHOOSE i \in 1..Len(s) :
                          s[i] = sep /\ \A j \in 1..(i - 1) : s[j] # sep
         IN  <<SubSeq(s, 1, first - 1)>>
                 \o split(SubSeq(s, first + 1, Len(s)), sep)

\* sep.join(lines)
RECURSIVE join(_, _)
join(lines, sep) ==
    IF lines = <<>> THEN <<>>
    ELSE IF Len(lines) = 1 THEN lines[1]
    ELSE lines[1] \o <<sep>> \o join(Tail(lines), sep)

\* a normalize_output that removes trailing whitespace only
normalize_output_TrailingOnly(output) ==
    IF output = <<>> THEN <<>>
    ELSE LET lines == split(rstrip(output), "\n")
             normalized_lines == [i \in 1..Len(lines) |-> rstrip(lines[i])]
         IN  join(normalized_lines, "\n")

\* lines 92-100
normalize_output(output) ==
    IF output = <<>> THEN <<>>
    ELSE LET lines == split(strip(output), "\n")
             normalized_lines == [i \in 1..Len(lines) |-> strip(lines[i])]
         IN  join(normalized_lines, "\n")

\* the decimal digits, Digits[d + 1] being the character of digit d
Digits == <<"0", "1", "2", "3", "4", "5", "6", "7", "8", "9">>
IsDigit(c) == \E d \in 1..Len(Digits) : Digits[d] = c
DigitValue(c) == (CHOOSE d \in 1..Len(Digits) : Digits[d] = c) - 1

\* the number a string of digits denotes
RECURSIVE DecimalValue(_)
DecimalValue(ds) ==
    IF ds = <<>> THEN 0
    ELSE 10 * DecimalValue(SubSeq(ds, 1, Len(ds) - 1)) + DigitValue(ds[Len(ds)])

\* what float() raises on a text that is no number
ValueError == [ok |-> FALSE, digits |-> 0, scale |-> 0]

\* float(text) for texts over digits, "." and whitespace: surrounding
\* whitespace is ignored, then digits with at most one point and at least one
\* digit; the value is digits / 10^scale
float(text) ==
    LET t == strip(text)
        parts == split(t, ".")
        whole == parts[1]
        frac == IF Len(parts) = 2 THEN parts[2] ELSE <<>>
    IN  IF /\ Len(parts) <= 2
           /\ \A i \in 1..Len(t) : IsDigit(t[i]) \/ t[i] = "."
           /\ Len(whole) + Len(frac) > 0
        THEN [ok |-> TRUE, digits |-> DecimalValue(whole \o frac),
              scale |-> Len(frac)]
        ELSE ValueError

RECURSIVE Pow10(_)
Pow10(k) == IF k = 0 THEN 1 ELSE 10 * Pow10(k - 1)

abs(n) == IF n < 0 THEN -n ELSE n

\* line 112
float_problems == {"1008", "1003", "10869", "2914"}

\* 1e-9 is 1 / ToleranceInverse (line 123)
ToleranceInverse == 1000000000

\* num / den < 1e-9, for num >= 0 and den > 0
BelowTolerance(num, den) == num <= (den - 1) \div ToleranceInverse

\* line 120: abs_diff = num / 10^(scales added)
abs_diff_num(e, a) == abs(e.digits * Pow10(a.scale) - a.digits * Pow10(e.scale))

\* lines 120-123.  A number of at most MaxLen characters that is not zero is
\* above 1e-10, so max(abs(expected_float), 1e-10) is abs(expected_float)
\* unless expected_float is zero, and rel_diff is then
\* abs_diff_num / (e.digits * 10^a.scale); against the floor 1e-10 only a
\* difference of zero is within the tolerance.
WithinTolerance(e, a) ==
    \/ BelowTolerance(abs_diff_num(e, a), Pow10(e.scale + a.scale))
    \/ IF e.digits >= 1
       THEN BelowTolerance(abs_diff_num(e, a), e.digits * Pow10(a.scale))
       ELSE abs_diff_num(e, a) = 0

\* a compare_outputs that tries the numeric comparison for every problem
compare_outputs_AnyProblem(exp, act, pid) ==
    LET expected_norm == normalize_output(exp)
        actual_norm == normalize_output(act)
        expected_float == float(expected_norm)
        actual_float == float(actual_norm)
    IN  IF expected_norm = actual_norm THEN TRUE
        ELSE IF expected_float.ok /\ actual_float.ok
             THEN WithinTolerance(expected_float, actual_float)
             ELSE FALSE

\* lines 102-129
compare_outputs(exp, act, pid) ==
    LET expected_norm == normalize_output(exp)
        actual_norm == normalize_output(act)
        expected_float == float(expected_norm)
        actual_float == float(actual_norm)
    IN  IF expected_norm = actual_norm THEN TRUE
        ELSE IF pid \in float_problems
             THEN IF expected_float.ok /\ actual_float.ok
                  THEN WithinTolerance(expected_float, actual_float)
                  ELSE FALSE
             ELSE FALSE

\* the problem IDs a call is made with: none, one on the list, one off it
ProblemIds == {"None", "1008", "1000"}

NoOutcome == [returned |-> FALSE, value |-> FALSE]

\* one call compare_outputs(expected, actual, problem_id)
CompareOutputs ==
    /\ ~outcome.returned
    /\ outcome' = [returned |-> TRUE,
                   value |-> compare_outputs(expected, actual, problem_id)]
    /\ UNCHANGED <<expected, actual, problem_id>>
    /\ UNCHANGED nonCompareVars

NextCompare == CompareOutputs

(***************************************************************************)
(* update_readme.py.                                                       *)
(* A date is a day number, day 0 being Monday 2026-12-21, so that the      *)
(* weekday of a day is its number modulo 7 (Monday 0, Sunday 6).           *)
(* README.md is its week header and the text between the date row of the   *)
(* status table and the "---" that follows the table, as a sequence of     *)
(* table rows and newlines.  The regular expressions of the script tell    *)
(* apart "|", "\n" and the other characters only, no cell holds a "|" or a *)
(* "\n" and the fixed text around the table holds no "|", so a row is one  *)
(* token.                                                                  *)
(***************************************************************************)
\* datetime(year, 1, 1): Thursday 2026-01-01 and Friday 2027-01-01
year_start == [y \in {2026, 2027} |-> IF y = 2026 THEN -354 ELSE 11]

\* datetime.year, for the days before 2028
year_of(day) == IF day < year_start[2027] THEN 2026 ELSE 2027

\* datetime.weekday()
weekday(day) == day % 7

Weekdays == 0..6

\* lines 21-46, datetime.now() being the day `now`
get_week_info(now) ==
    LET days_until_sunday == (6 - weekday(now)) % 7
        current_sunday == now + days_until_sunday
        current_monday == current_sunday - 6
        days_from_year_start == current_monday - year_start[year_of(now)]
    IN  [week_number |-> (days_from_year_start \div 7) + 1,
         year |-> year_of(now),
         monday |-> current_monday,
         sunday |-> current_sunday]

\* a cell of a table row: a check mark, or problem IDs joined with ", " and
\* followed by "..." when there are more
EmptyCell == [ids |-> <<>>, more |-> FALSE, check |-> FALSE]
EmptyCells == [d \in Weekdays |-> EmptyCell]

\* a newline of the document
NL == [kind |-> "nl", name |-> "", cells |-> EmptyCells]

\* no README.md in the working directory
AbsentReadme ==
    [exists |-> FALSE, year |-> 0, week_number |-> 0, monday |-> 0, body |-> <<>>]

\* lines 48-71 and 145-149: the header of the current week and a table
\* without participants; "\n---" follows the newline of the date row
create_initial_readme(now) ==
    LET week_info == get_week_info(now)
    IN  [exists |-> TRUE, year |-> week_info.year,
         week_number |-> week_info.week_number,
         monday |-> week_info.monday, body |-> <<NL>>]

\* lines 12-19
load_readme(file, now) == IF file.exists THEN file ELSE create_initial_readme(now)

\* the dict of no participants
NoParticipants == [n \in {} |-> EmptyCells]

\* participants[name] = data
Put(participants, name, data) ==
    [n \in (DOMAIN participants) \cup {name} |->
        IF n = name THEN data ELSE participants[n]]

\* what table_pattern (line 173) matches after the date row: rows that are
\* each followed by a newline, as many as there are
RECURSIVE MatchedLen(_)
MatchedLen(body) ==
    IF Len(body) >= 2 /\ body[1].kind # "nl" /\ body[2].kind = "nl"
    THEN 2 + MatchedLen(SubSeq(body, 3, Len(body)))
    ELSE 0

\* lines 174-178: the lines of the matched rows
TableLines(body) == [i \in 1..(MatchedLen(body) \div 2) |-> body[2 * i - 1]]

\* line.split('|')[1:-1]: the name column and the seven weekday columns.
\* A participant's name is no number, so that the name column holds no
\* problem ID whatever the row.
Parts(line) == <<EmptyCell>> \o [j \in 1..7 |-> line.cells[j - 1]]

\* lines 199-206: the problem IDs of one part of a row
Problems(part) == IF part.check THEN <<>> ELSE part.ids

\* lines 180-212: the loop over the lines, i counting from 1
RECURSIVE ParseLines(_, _, _)
ParseLines(lines, i, participants) ==
    IF i > Len(lines) THEN participants
    ELSE IF lines[i].name # ""
    THEN LET problem_parts ==
                 IF i + 1 <= Len(lines) THEN Parts(lines[i + 1]) ELSE <<>>
             participant_data ==
                 [j \in Weekdays |->
                     IF j < Len(problem_parts)
                     THEN Problems(problem_parts[j + 1])
                     ELSE <<>>]
         IN  ParseLines(lines, i + 2,
                        Put(participants, lines[i].name, participant_data))
    ELSE ParseLines(lines, i + 1, participants)

\* a parse_current_week_stats that reads the table whatever its week
parse_current_week_stats_NoWeekCheck(readme_content, now) ==
    [participants |->
         ParseLines(TableLines(readme_content.body), 1, NoParticipants),
     need_reset |-> FALSE]

\* lines 151-214
parse_current_week_stats(readme_content, now) ==
    LET current_week == get_week_info(now)
    IN  IF \/ readme_content.year # current_week.year
           \/ readme_content.week_number # current_week.week_number
        THEN [participants |-> NoParticipants, need_reset |-> TRUE]
        ELSE [participants |->
                  ParseLines(TableLines(readme_content.body), 1, NoParticipants),
              need_reset |-> FALSE]

\* lines 326-327: a cell shows at most this many problem IDs
MaxShown == 3

\* lines 322-332: the cell of the problem row
ProblemCell(ids) ==
    IF Len(ids) > MaxShown
    THEN [ids |-> SubSeq(ids, 1, MaxShown), more |-> TRUE, check |-> FALSE]
    ELSE [ids |-> ids, more |-> FALSE, check |-> FALSE]

\* lines 312-316: the cell of the check row
CheckCell(ids) == [ids |-> <<>>, more |-> FALSE, check |-> ids # <<>>]

\* lines 310-337: the two rows of one participant
RowsOf(participant, participant_data) ==
    << [kind |-> "check", name |-> participant,
        cells |-> [d \in Weekdays |-> CheckCell(participant_data[d])]],
       NL,
       [kind |-> "problem", name |-> "",
        cells |-> [d \in Weekdays |-> ProblemCell(participant_data[d])]] >>

\* the participants' names in the order of sorted()
Authors == <<"alice", "bob">>
sorted(names) == SelectSeq(Authors, LAMBDA a : a \in names)

\* '\n'.join(table_rows), lines 307-337
RECURSIVE JoinRows(_, _)
JoinRows(participants, order) ==
    IF order = <<>> THEN <<>>
    ELSE RowsOf(Head(order), participants[Head(order)])
             \o (IF Tail(order) = <<>> THEN <<>>
                 ELSE <<NL>> \o JoinRows(participants, Tail(order)))

\* lines 289-337: the rows that follow the date row and its newline
create_participant_table(participants) ==
    JoinRows(participants, sorted(DOMAIN participants))

\* the problems, the authors and the submission dates of the runs.  Only the
\* weekday of a submission date is used (line 226), and the driver passes the
\* day of the run: the dates are those of the week the run falls in.
ReadmeProblems == {"1000", "2000"}
SubmissionDates(now) == get_week_info(now).monday .. get_week_info(now).sunday
Facts(now) ==
    [problem_id : ReadmeProblems, author : {"alice", "bob"},
     submission_date : SubmissionDates(now)]

\* lines 216-219
get_weekday_from_date(date) == weekday(date)

\* lines 241-243 and 272-274: a new participant's week
NewParticipant(fact) ==
    [d \in Weekdays |->
        IF d = get_weekday_from_date(fact.submission_date)
        THEN <<fact.problem_id>>
        ELSE <<>>]

\* lines 221-287: the new document and the stats returned
update_current_week_table(readme_content, fact, now) ==
    LET current_week == get_week_info(now)
        submission_weekday == get_weekday_from_date(fact.submission_date)
        stats == parse_current_week_stats(readme_content, now)
    IN  IF stats.need_reset
        THEN \* lines 234-260: header_pattern ends before the newline of the
             \* date row, so that "\n\n---" follows the new rows
             LET participants ==
                     Put(NoParticipants, fact.author, NewParticipant(fact))
             IN  [content |->
                      [exists |-> TRUE, year |-> current_week.year,
                       week_number |-> current_week.week_number,
                       monday |-> current_week.monday,
                       body |-> create_participant_table(participants)
                                    \o <<NL, NL>>],
                  participants |-> participants]
        ELSE \* lines 262-287: table_pattern takes the rows that end in a
             \* newline together with that newline; new_table ends without one
             LET old == stats.participants
                 participant_info ==
                     IF fact.author \in DOMAIN old
                     THEN [old[fact.author] EXCEPT ![submission_weekday] =
                              IF \E k \in 1..Len(@) : @[k] = fact.problem_id
                              THEN @
                              ELSE Append(@, fact.problem_id)]
                     ELSE NewParticipant(fact)
                 participants == Put(old, fact.author, participant_info)
                 body == readme_content.body
             IN  [content |->
                      [readme_content EXCEPT !.body =
                          create_participant_table(participants)
                              \o SubSeq(body, MatchedLen(body) + 1, Len(body))],
                  participants |-> participants]

\* at most this many runs of update_readme.py
MaxUpdates == 2
\* the day changes at most this many times
MaxDays == 1
\* the days a behaviour starts on: Wednesday 2026-12-23, Sunday 2026-12-27
StartDays == {2, 6}

\* the runs of the week before the first one of a behaviour
SeedFacts ==
    << [problem_id |-> "3000", author |-> "alice", submission_date |-> 0],
       [problem_id |-> "3000", author |-> "bob", submission_date |-> 0],
       [problem_id |-> "4000", author |-> "alice", submission_date |-> 2],
       [problem_id |-> "5000", author |-> "alice", submission_date |-> 3] >>

\* README.md after the runs of main with the given facts, all on day `now`
RECURSIVE AfterRuns(_, _, _)
AfterRuns(file, facts, now) ==
    IF facts = <<>> THEN file
    ELSE AfterRuns(update_current_week_table(load_readme(file, now),
                                             Head(facts), now).content,
                   Tail(facts), now)

NoFact == [problem_id |-> "", author |-> "", submission_date |-> 0]

NoLast ==
    [applied |-> FALSE, fact |-> NoFact, before |-> AbsentReadme,
     need_reset |-> FALSE, participants |-> NoParticipants, repeated |-> FALSE]

\* update_readme.py has not run
IdleReadme ==
    /\ readme = AbsentReadme
    /\ today = 0
    /\ elapsed = 0
    /\ updates = 0
    /\ last = NoLast

\* README.md is missing, or is what earlier runs of the week left
InitReadmeFile ==
    /\ today \in StartDays
    /\ readme \in {AbsentReadme, AfterRuns(AbsentReadme, SeedFacts, today)}
    /\ elapsed = 0
    /\ updates = 0
    /\ last = NoLast

\* main, lines 353-404: one run of update_readme.py.  update_last_updated
\* (lines 339-351) finds its marker in the fixed text and changes nothing.
UpdateReadme ==
    /\ updates < MaxUpdates
    /\ \E fact \in Facts(today) :
        LET readme_content == load_readme(readme, today)
            updated == update_current_week_table(readme_content, fact, today)
        IN  /\ readme' = updated.content
            /\ last' = [applied |-> TRUE,
                        fact |-> fact,
                        before |-> readme_content,
                        need_reset |->
                            parse_current_week_stats(readme_content, today).need_reset,
                        participants |-> updated.participants,
                        repeated |-> /\ last.applied
                                     /\ last.fact = fact
                                     /\ ~last.need_reset]
    /\ updates' = updates + 1
    /\ UNCHANGED <<today, elapsed>>
    /\ UNCHANGED nonReadmeVars

\* midnight
NextDay ==
    /\ elapsed < MaxDays
    /\ today' = today + 1
    /\ elapsed' = elapsed + 1
    /\ last' = NoLast
    /\ UNCHANGED <<readme, updates>>
    /\ UNCHANGED nonReadmeVars

NextReadme ==
    \/ UpdateReadme
    \/ NextDay

(***************************************************************************)
(* scripts/extract_pr_info.py                                              *)
(*                                                                         *)
(* A path is the sequence of its components (the texts between slashes)    *)
(* and a component is a sequence of characters, in which a run of          *)
(* characters that are neither digits nor slashes is written as one        *)
(* element: alice/1000/Main.java is                                        *)
(* << <<"alice">>, <<"1","0","0","0">>, <<"Main.java">> >>.                *)
(***************************************************************************)
\* at most this many files in the answer of /pulls/<n>/files
MaxFiles == 2

Path(author, folder, file) == <<<<author>>, folder, <<file>>>>

Paths == {
    Path("alice", <<"1", "0", "0", "0">>, "Main.java"),
    Path("alice", <<"2", "0", "0", "0">>, "Main.java"),
    Path("alice", <<"0", "2", "0", "0", "0">>, "Main.java"),
    Path("alice", <<"9", "9", "9", "9", "9">>, "Main.java"),
    Path("alice", <<"1", "0", "0", "0", "_two_sum">>, "Main.java"),
    Path("alice", <<"1", "0", "0", "0">>, "Main.py"),
    Path("bob", <<"1", "0", "0", "0">>, "Main.java"),
    <<<<"alice">>, <<"Main.java">>>>,
    <<<<"README.md">>>> }

\* the `status` of a file in the answer
Statuses == {"added", "modified"}

\* one entry of the answer of /pulls/<n>/files
ApiFiles == {[filename |-> p, status |-> s] : p \in Paths, s \in Statuses}

\* get_pr_info returned None
NoLogin == <<>>
Logins == {<<"alice">>, <<"bob">>}

\* what the script finds around it: whether PR_NUMBER and GITHUB_REPOSITORY
\* are set, the login `gh api` gives for the pull request (NoLogin when the
\* call fails) and the files it lists (files_ok is FALSE when that call fails)
Environments ==
    {[env_set |-> e, login |-> l, files_ok |-> TRUE, files |-> fs] :
        e \in BOOLEAN, l \in Logins \cup {NoLogin},
        fs \in SeqsUpTo(ApiFiles, MaxFiles)}
    \cup
    {[env_set |-> e, login |-> l, files_ok |-> FALSE, files |-> <<>>] :
        e \in BOOLEAN, l \in Logins \cup {NoLogin}}

\* lines 8-21
get_pr_info(env) == env.login

\* lines 23-49: the listed files whose name ends with "/Main.java", or [] when
\* the call fails
get_pr_changed_files(env) ==
    IF env.files_ok
    THEN SelectSeq(env.files,
                   LAMBDA file : /\ Len(file.filename) >= 2
                                 /\ file.filename[Len(file.filename)] = <<"Main.java">>)
    ELSE <<>>

\* (None, None)
NoInfo == [author |-> <<>>, problem_id |-> <<>>]

\* \d+ : one digit or more, and nothing else
AllDigits(text) == text # <<>> /\ \A i \in 1..Len(text) : IsDigit(text[i])

\* a variant that takes the digits a folder name begins with
extract_info_from_path_DigitPrefix(file_path) ==
    IF /\ Len(file_path) = 3
       /\ file_path[1] # <<>>
       /\ file_path[2] # <<>>
       /\ IsDigit(file_path[2][1])
       /\ file_path[3] = <<"Main.java">>
    THEN [author |-> file_path[1],
          problem_id |-> SelectSeq(file_path[2], IsDigit)]
    ELSE NoInfo

\* lines 51-57: ^([^/]+)/(\d+)/Main\.java$
extract_info_from_path(file_path) ==
    IF /\ Len(file_path) = 3
       /\ file_path[1] # <<>>
       /\ AllDigits(file_path[2])
       /\ file_path[3] = <<"Main.java">>
    THEN [author |-> file_path[1], problem_id |-> file_path[2]]
    ELSE NoInfo

\* lines 76-83, the record of one file (`changes` is left out)
ProblemRecord(file_info) ==
    LET info == extract_info_from_path(file_info.filename)
    IN  [author |-> info.author,
         problem_id |-> info.problem_id,
         code_file |-> file_info.filename,
         language |-> "java",
         status |-> file_info.status]

\* lines 59-91
filter_author_files(files, author) ==
    LET kept == SelectSeq(files,
                    LAMBDA file_info :
                        LET info == extract_info_from_path(file_info.filename)
                        IN  /\ info.author # <<>>
                            /\ info.problem_id # <<>>
                            /\ info.author = author)
    IN  [i \in 1..Len(kept) |-> ProblemRecord(kept[i])]

\* int(x['problem_id'])
int(text) == DecimalValue(text)

\* max(files, key=lambda x: int(x['problem_id'])): the first of the files
\* whose key is the largest
max(files) ==
    files[CHOOSE i \in 1..Len(files) :
              /\ \A j \in 1..Len(files) : int(files[j].problem_id) <= int(files[i].problem_id)
              /\ \A j \in 1..(i - 1) : int(files[j].problem_id) < int(files[i].problem_id)]

\* None, as a record
NoProblem ==
    [author |-> <<>>, problem_id |-> <<>>, code_file |-> <<>>,
     language |-> "", status |-> ""]

\* a variant without the preference for added files
select_primary_problem_LargestOnly(files) ==
    IF files = <<>> THEN NoProblem ELSE max(files)

\* lines 93-107
select_primary_problem(files) ==
    IF files = <<>> THEN NoProblem
    ELSE LET added_files == SelectSeq(files, LAMBDA f : f.status = "added")
         IN  IF added_files # <<>> THEN max(added_files) ELSE max(files)

\* lines 109-132, the shape of the summary text
create_problems_summary(files) ==
    IF files = <<>> THEN ""
    ELSE IF Len(files) = 1 THEN "one problem"
    ELSE "several problems"

\* an output that has not been set
NotSet == -1

NoOutputs ==
    [author |-> <<>>, problem_id |-> <<>>, code_file |-> <<>>, language |-> "",
     has_valid_problems |-> "", total_problems_count |-> NotSet,
     added_problems_count |-> NotSet, modified_problems_count |-> NotSet,
     is_multiple_problems |-> "", problems_summary |-> ""]

\* '0000' and 'dummy/Main.java'
DummyId == <<"0", "0", "0", "0">>
DummyFile == <<<<"dummy">>, <<"Main.java">>>>

\* a variant that reports the dummy problem as a valid one
DummyOutputs_Valid(author, text) ==
    [NoOutputs EXCEPT !.author = author,
                      !.problem_id = DummyId,
                      !.code_file = DummyFile,
                      !.language = "java",
                      !.has_valid_problems = "true",
                      !.problems_summary = text]

\* lines 162-167 and 176-181
DummyOutputs(author, text) ==
    [NoOutputs EXCEPT !.author = author,
                      !.problem_id = DummyId,
                      !.code_file = DummyFile,
                      !.language = "java",
                      !.has_valid_problems = "false",
                      !.problems_summary = text]

\* len([f for f in author_files if f['status'] == status])
CountStatus(files, status) == Len(SelectSeq(files, LAMBDA f : f.status = status))

\* lines 188-205
ProblemOutputs(files, primary) ==
    [author |-> primary.author,
     problem_id |-> primary.problem_id,
     code_file |-> primary.code_file,
     language |-> primary.language,
     has_valid_problems |-> "true",
     total_problems_count |-> Len(files),
     added_problems_count |-> CountStatus(files, "added"),
     modified_problems_count |-> CountStatus(files, "modified"),
     is_multiple_problems |-> IF Len(files) > 1 THEN "true" ELSE "false",
     problems_summary |-> create_problems_summary(files)]

\* main has not started
ExtractNotStarted ==
    /\ epc = "start"
    /\ pr_author = NoLogin
    /\ changed_files = <<>>
    /\ author_files = <<>>
    /\ primary_problem = NoProblem
    /\ outputs = NoOutputs
    /\ pr_analysis = FALSE
    /\ extract_exit = NotExited

\* extract_pr_info.py is not run
IdleExtract ==
    /\ gh = [env_set |-> FALSE, login |-> NoLogin, files_ok |-> FALSE, files |-> <<>>]
    /\ ExtractNotStarted

\* any environment
InitExtractRun ==
    /\ gh \in Environments
    /\ ExtractNotStarted

\* lines 143-148
CheckEnvironment ==
    /\ epc = "start"
    /\ IF gh.env_set
       THEN epc' = "author" /\ UNCHANGED extract_exit
       ELSE epc' = "done" /\ extract_exit' = 1
    /\ UNCHANGED <<gh, pr_author, changed_files, author_files, primary_problem,
                   outputs, pr_analysis>>
    /\ UNCHANGED nonExtractVars

\* lines 151-154
GetPrInfo ==
    /\ epc = "author"
    /\ pr_author' = get_pr_info(gh)
    /\ IF pr_author' = NoLogin
       THEN epc' = "done" /\ extract_exit' = 1
       ELSE epc' = "files" /\ UNCHANGED extract_exit
    /\ UNCHANGED <<gh, changed_files, author_files, primary_problem, outputs,
                   pr_analysis>>
    /\ UNCHANGED nonExtractVars

\* lines 157-168
GetChangedFiles ==
    /\ epc = "files"
    /\ changed_files' = get_pr_changed_files(gh)
    /\ IF changed_files' = <<>>
       THEN /\ outputs' = DummyOutputs(pr_author, "no Main.java file")
            /\ epc' = "done"
            /\ extract_exit' = 0
       ELSE /\ epc' = "filter"
            /\ UNCHANGED <<outputs, extract_exit>>
    /\ UNCHANGED <<gh, pr_author, author_files, primary_problem, pr_analysis>>
    /\ UNCHANGED nonExtractVars

\* lines 171-182
FilterAuthorFiles ==
    /\ epc = "filter"
    /\ author_files' = filter_author_files(changed_files, pr_author)
    /\ IF author_files' = <<>>
       THEN /\ outputs' = DummyOutputs(pr_author, "no valid problem file")
            /\ epc' = "done"
            /\ extract_exit' = 0
       ELSE /\ epc' = "select"
            /\ UNCHANGED <<outputs, extract_exit>>
    /\ UNCHANGED <<gh, pr_author, changed_files, primary_problem, pr_analysis>>
    /\ UNCHANGED nonExtractVars

\* lines 185-205
SelectPrimary ==
    /\ epc = "select"
    /\ primary_problem' = select_primary_problem(author_files)
    /\ outputs' = ProblemOutputs(author_files, primary_problem')
    /\ epc' = "save"
    /\ UNCHANGED <<gh, pr_author, changed_files, author_files, pr_analysis,
                   extract_exit>>
    /\ UNCHANGED nonExtractVars

\* lines 208-232
SaveAnalysis ==
    /\ epc = "save"
    /\ pr_analysis' = TRUE
    /\ epc' = "done"
    /\ extract_exit' = 0
    /\ UNCHANGED <<gh, pr_author, changed_files, author_files, primary_problem,
                   outputs>>
    /\ UNCHANGED nonExtractVars

NextExtract ==
    \/ CheckEnvironment
    \/ GetPrInfo
    \/ GetChangedFiles
    \/ FilterAuthorFiles
    \/ SelectPrimary
    \/ SaveAnalysis

(***************************************************************************)
(* scripts/send_success_notification.py, send_failure_notification.py and  *)
(* send_notification.py                                                    *)
(*                                                                         *)
(* The name of an environment variable is a sequence of pieces:            *)
(* ALICE_MATTERMOST_URL is <<"ALICE", "_MATTERMOST_URL">>.                 *)
(***************************************************************************)
\* a missing argument, an unset environment variable
None == "None"

\* `if value:` for a string or None
Truthy(value) == value \notin {None, ""}

SharedKey == <<"MATTERMOST_WEBHOOK_URL">>
PersonalKey(name) == <<name, "_MATTERMOST_URL">>

\* the variables of the environment, in the order os.environ lists them
Keys == <<PersonalKey("ALICE"), PersonalKey("BOB"), SharedKey>>

\* the URL a variable holds when it holds one
UrlOf(key) == [name |-> "env", key |-> key]
NoUrl(text) == [name |-> text, key |-> <<>>]
ArgUrl == [name |-> "argv[3]", key |-> <<>>]

\* the environments: each variable unset, empty or holding its URL
KeySet == {Keys[k] : k \in 1..Len(Keys)}
Environs == [KeySet -> {None, "", "url"}]

\* os.environ.get(key), a URL as a record
environ_get(environ, key) ==
    IF key \notin KeySet THEN NoUrl(None)
    ELSE IF environ[key] = "url" THEN UrlOf(key)
    ELSE NoUrl(environ[key])

\* `if webhook_url:`
IsUrl(url) == url.name \notin {None, ""}

\* str.upper() and str.lower() on the names in use
upper == [alice |-> "ALICE", Alice |-> "ALICE", bob |-> "BOB"]
lower == [ALICE |-> "alice", BOB |-> "bob"]

Scripts == {"success", "failure", "notification"}

\* sys.argv[2] and sys.argv[3] of the success script: a third argument is
\* there only if a second is
SuccessArgs ==
    {[pr_author |-> a, personal_webhook_url |-> u] :
        a \in {"", "alice", "Alice"}, u \in {None, "", "url"}}
    \cup {[pr_author |-> None, personal_webhook_url |-> None]}

NoArgs == [pr_author |-> None, personal_webhook_url |-> None]

\* what a run finds: the script, whether the message can be built (the
\* summary file can be read, the session values are numbers), --dry-run, the
\* arguments and the environment
Runs ==
    {[script |-> "success", built |-> b, dry_run |-> FALSE, argv |-> a, environ |-> e] :
        b \in BOOLEAN, a \in SuccessArgs, e \in Environs}
    \cup
    {[script |-> "failure", built |-> b, dry_run |-> FALSE, argv |-> NoArgs, environ |-> e] :
        b \in BOOLEAN, e \in Environs}
    \cup
    {[script |-> "notification", built |-> b, dry_run |-> d, argv |-> NoArgs, environ |-> e] :
        b \in BOOLEAN, d \in BOOLEAN, e \in Environs}

\* a variant that asks the shared channel before the author's variable
resolve_webhook_url_SharedFirst(argv, environ) ==
    IF Truthy(argv.personal_webhook_url) THEN ArgUrl
    ELSE IF IsUrl(environ_get(environ, SharedKey)) THEN environ_get(environ, SharedKey)
    ELSE IF Truthy(argv.pr_author)
         THEN environ_get(environ, PersonalKey(upper[argv.pr_author]))
         ELSE NoUrl(None)

\* send_success_notification.py, lines 62-83
resolve_webhook_url(argv, environ) ==
    LET personal_webhook_url ==
            IF argv.personal_webhook_url # None /\ argv.personal_webhook_url # ""
            THEN ArgUrl ELSE NoUrl(None)
        first ==
            IF IsUrl(personal_webhook_url) THEN personal_webhook_url
            ELSE IF Truthy(argv.pr_author)
                 THEN environ_get(environ, PersonalKey(upper[argv.pr_author]))
                 ELSE NoUrl(None)
    IN  IF ~IsUrl(first) THEN environ_get(environ, SharedKey) ELSE first

\* send_notification.py, lines 149-156: the (user_name, url) pairs of the
\* variables whose name ends with _MATTERMOST_URL and whose value is not empty
collect_webhook_configs(environ) ==
    LET named == SelectSeq(Keys,
                     LAMBDA key : /\ key[Len(key)] = "_MATTERMOST_URL"
                                  /\ Truthy(environ[key]))
    IN  [i \in 1..Len(named) |->
            [user_name |-> lower[named[i][1]], webhook_url |-> environ_get(environ, named[i])]]

\* what a POST can come to (send_notification.py, lines 36-50)
PostOutcomes == {"200", "500", "timeout", "error"}

\* send_mattermost_notification's return value
send_mattermost_notification(post) == post = "200"

\* what curl --fail can come to: `ok`, or CalledProcessError
CurlOutcomes == {"ok", "CalledProcessError"}

\* a variant that fails unless every delivery succeeded
FinishStatus_AllOrNothing(count, total) == IF count < total THEN 1 ELSE 0

\* send_notification.py, lines 177-183
FinishStatus(count, total) == IF count = 0 THEN 1 ELSE 0

\* no notification script is run
IdleNotify ==
    /\ run = [script |-> "failure", built |-> FALSE, dry_run |-> FALSE,
              argv |-> NoArgs, environ |-> [key \in KeySet |-> None]]
    /\ npc = "build"
    /\ webhook_url = NoUrl(None)
    /\ webhook_configs = <<>>
    /\ deliveries = <<>>
    /\ success_count = 0
    /\ notify_exit = NotExited

\* any run of any of the three scripts
InitNotifyRun ==
    /\ run \in Runs
    /\ npc = "build"
    /\ webhook_url = NoUrl(None)
    /\ webhook_configs = <<>>
    /\ deliveries = <<>>
    /\ success_count = 0
    /\ notify_exit = NotExited

\* send_success_notification.py, lines 7-59 (and 105-106 when it raises)
SuccessBuild ==
    /\ run.script = "success"
    /\ npc = "build"
    /\ IF run.built
       THEN npc' = "resolve" /\ UNCHANGED notify_exit
       ELSE npc' = "done" /\ notify_exit' = 0
    /\ UNCHANGED <<run, webhook_url, webhook_configs, deliveries, success_count>>
    /\ UNCHANGED nonNotifyVars

\* send_success_notification.py, lines 61-88
SuccessResolve ==
    /\ run.script = "success"
    /\ npc = "resolve"
    /\ webhook_url' = resolve_webhook_url(run.argv, run.environ)
    /\ IF ~IsUrl(webhook_url')
       THEN npc' = "done" /\ notify_exit' = 0
       ELSE npc' = "deliver" /\ UNCHANGED notify_exit
    /\ UNCHANGED <<run, webhook_configs, deliveries, success_count>>
    /\ UNCHANGED nonNotifyVars

\* send_success_notification.py, lines 90-106
SuccessDeliver ==
    /\ run.script = "success"
    /\ npc = "deliver"
    /\ \E curl \in CurlOutcomes :
        deliveries' = Append(deliveries, [webhook_url |-> webhook_url, outcome |-> curl])
    /\ npc' = "done"
    /\ notify_exit' = 0
    /\ UNCHANGED <<run, webhook_url, webhook_configs, success_count>>
    /\ UNCHANGED nonNotifyVars

\* send_failure_notification.py, lines 7-53 (and 75-76 when it raises)
FailureBuild ==
    /\ run.script = "failure"
    /\ npc = "build"
    /\ IF run.built
       THEN npc' = "resolve" /\ UNCHANGED notify_exit
       ELSE npc' = "done" /\ notify_exit' = 0
    /\ UNCHANGED <<run, webhook_url, webhook_configs, deliveries, success_count>>
    /\ UNCHANGED nonNotifyVars

\* send_failure_notification.py, lines 55-58
FailureResolve ==
    /\ run.script = "failure"
    /\ npc = "resolve"
    /\ webhook_url' = environ_get(run.environ, SharedKey)
    /\ IF ~IsUrl(webhook_url')
       THEN npc' = "done" /\ notify_exit' = 0
       ELSE npc' = "deliver" /\ UNCHANGED notify_exit
    /\ UNCHANGED <<run, webhook_configs, deliveries, success_count>>
    /\ UNCHANGED nonNotifyVars

\* send_failure_notification.py, lines 60-76
FailureDeliver ==
    /\ run.script = "failure"
    /\ npc = "deliver"
    /\ \E curl \in CurlOutcomes :
        deliveries' = Append(deliveries, [webhook_url |-> webhook_url, outcome |-> curl])
    /\ npc' = "done"
    /\ notify_exit' = 0
    /\ UNCHANGED <<run, webhook_url, webhook_configs, success_count>>
    /\ UNCHANGED nonNotifyVars

\* send_notification.py, lines 129-146 (and 185-190 when it raises)
NotificationBuild ==
    /\ run.script = "notification"
    /\ npc = "build"
    /\ IF ~run.built THEN npc' = "done" /\ notify_exit' = 1
       ELSE IF run.dry_run THEN npc' = "done" /\ notify_exit' = 0
       ELSE npc' = "collect" /\ UNCHANGED notify_exit
    /\ UNCHANGED <<run, webhook_url, webhook_configs, deliveries, success_count>>
    /\ UNCHANGED nonNotifyVars

\* send_notification.py, lines 149-169
NotificationCollect ==
    /\ run.script = "notification"
    /\ npc = "collect"
    /\ webhook_configs' = collect_webhook_configs(run.environ)
    /\ IF webhook_configs' = <<>>
       THEN npc' = "done" /\ notify_exit' = 0
       ELSE npc' = "send" /\ UNCHANGED notify_exit
    /\ UNCHANGED <<run, webhook_url, deliveries, success_count>>
    /\ UNCHANGED nonNotifyVars

\* send_notification.py, lines 171-173: one turn of the loop
NotificationSend ==
    /\ run.script = "notification"
    /\ npc = "send"
    /\ Len(deliveries) < Len(webhook_configs)
    /\ LET config == webhook_configs[Len(deliveries) + 1]
       IN  \E post \in PostOutcomes :
            /\ deliveries' = Append(deliveries,
                                 [webhook_url |-> config.webhook_url, outcome |-> post])
            /\ success_count' = IF send_mattermost_notification(post)
                                THEN success_count + 1 ELSE success_count
    /\ UNCHANGED <<run, npc, webhook_url, webhook_configs, notify_exit>>
    /\ UNCHANGED nonNotifyVars

\* send_notification.py, lines 175-183
NotificationFinish ==
    /\ run.script = "notification"
    /\ npc = "send"
    /\ Len(deliveries) = Len(webhook_configs)
    /\ npc' = "done"
    /\ notify_exit' = FinishStatus(success_count, Len(webhook_configs))
    /\ UNCHANGED <<run, webhook_url, webhook_configs, deliveries, success_count>>
    /\ UNCHANGED nonNotifyVars

NextNotify ==
    \/ SuccessBuild
    \/ SuccessResolve
    \/ SuccessDeliver
    \/ FailureBuild
    \/ FailureResolve
    \/ FailureDeliver
    \/ NotificationBuild
    \/ NotificationCollect
    \/ NotificationSend
    \/ NotificationFinish

(***************************************************************************)
(* scripts/fetch_boj_problem.py, and the call of it by                     *)
(* search_problem_with_fetch_boj of multi_test_runner.py                   *)
(***************************************************************************)
\* advanced_crawling_strategy's max_retries (line 314)
max_retries == 5

\* the options on the fetcher's command line: as its usage gives them, as
\* the runner gives them (multi_test_runner.py, lines 243-245), and none
CommandLines ==
    {<<"--problem-id">>, <<"--problem-id", "--output">>, <<>>}

RunnerCommandLine == <<"--problem-id", "--output">>

\* argparse, lines 455-457: --problem-id is required and is the only option
Accepted(options) ==
    /\ \E i \in 1..Len(options) : options[i] = "--problem-id"
    /\ \A i \in 1..Len(options) : options[i] = "--problem-id"

\* the exit status argparse ends the process with on a usage error
UsageError == 2

\* the files of the working directory
NoFiles ==
    [problem_info |-> Absent,      \* problem_info.json
     sample_tests |-> Absent,      \* sample_tests.json
     problem_id_info |-> Absent,   \* problem_<id>_info.json
     sample_id_tests |-> Absent,   \* sample_<id>_tests.json
     tests_id |-> Absent]          \* tests_<id>.json

\* advanced_crawling_strategy returned None
NoDetails == [found |-> FALSE, samples |-> <<>>]

\* what one attempt can come to: details with a description and these
\* samples, a page without a description, or an exception
ScrapeOutcomes ==
    {[kind |-> "details", samples |-> s] : s \in CaseLists}
    \cup {[kind |-> "empty", samples |-> <<>>], [kind |-> "exception", samples |-> <<>>]}

\* multi_test_runner.py, create_fallback_files (lines 297-335)
create_fallback_files(files) ==
    [files EXCEPT !.problem_id_info = File(<<>>),
                  !.sample_id_tests = File(<<>>),
                  !.tests_id = File(<<>>)]

\* multi_test_runner.py, lines 382-397 and 413: the fallback files after a
\* failed search, the check of the required files, and the samples loaded
AfterSearch(files, success) ==
    LET searched == IF success THEN files ELSE create_fallback_files(files)
    IN  IF ~searched.problem_id_info.present \/ ~searched.sample_id_tests.present
        THEN create_fallback_files(searched)
        ELSE searched

\* the runner has not called the fetcher, or the call has not returned
NoSearch == "pending"

\* the fetcher is not run
IdleFetch ==
    /\ command_line = <<>>
    /\ by_runner = FALSE
    /\ fpc = "done"
    /\ attempt = 0
    /\ boj_details = NoDetails
    /\ disk = NoFiles
    /\ fetch_exit = NotExited
    /\ search = NoSearch
    /\ loaded_samples = <<>>

\* the fetcher is started, by hand with any command line or by the runner
InitFetchRun ==
    /\ command_line \in CommandLines
    /\ by_runner \in BOOLEAN
    /\ by_runner => command_line = RunnerCommandLine
    /\ fpc = "parse"
    /\ attempt = 0
    /\ boj_details = NoDetails
    /\ disk = NoFiles
    /\ fetch_exit = NotExited
    /\ search = NoSearch
    /\ loaded_samples = <<>>

\* main, lines 455-462
ParseArguments ==
    /\ fpc = "parse"
    /\ IF Accepted(command_line)
       THEN fpc' = "scrape" /\ UNCHANGED fetch_exit
       ELSE fpc' = "exited" /\ fetch_exit' = UsageError
    /\ UNCHANGED <<command_line, by_runner, attempt, boj_details, disk, search,
                   loaded_samples>>
    /\ UNCHANGED nonFetchVars

\* advanced_crawling_strategy, lines 329-448: one attempt
Scrape ==
    /\ fpc = "scrape"
    /\ attempt < max_retries
    /\ attempt' = attempt + 1
    /\ \E scraped \in ScrapeOutcomes :
        IF scraped.kind = "details"
        THEN /\ boj_details' = [found |-> TRUE, samples |-> scraped.samples]
             /\ fpc' = "save"
        ELSE UNCHANGED <<boj_details, fpc>>
    /\ UNCHANGED <<command_line, by_runner, disk, fetch_exit, search, loaded_samples>>
    /\ UNCHANGED nonFetchVars

\* lines 450-451 and main, lines 468-471: every attempt failed
GiveUp ==
    /\ fpc = "scrape"
    /\ attempt = max_retries
    /\ fpc' = "exited"
    /\ fetch_exit' = 1
    /\ UNCHANGED <<command_line, by_runner, attempt, boj_details, disk, search,
                   loaded_samples>>
    /\ UNCHANGED nonFetchVars

\* main, lines 474-502: the two files, or an IOError at the first or the second
SaveFiles ==
    /\ fpc = "save"
    /\ \E written \in 0..2 :
        /\ disk' = [disk EXCEPT
                !.problem_info = IF written >= 1 THEN File(boj_details.samples) ELSE @,
                !.sample_tests = IF written >= 2 THEN File(boj_details.samples) ELSE @]
        /\ fetch_exit' = IF written = 2 THEN 0 ELSE 1
    /\ fpc' = "exited"
    /\ UNCHANGED <<command_line, by_runner, attempt, boj_details, search,
                   loaded_samples>>
    /\ UNCHANGED nonFetchVars

\* multi_test_runner.py, lines 242-261 and 379-413: the fetcher has exited;
\* the search succeeded if its status is 0
SearchReturns ==
    /\ by_runner
    /\ fpc = "exited"
    /\ search = NoSearch
    /\ search' = IF fetch_exit = 0 THEN "success" ELSE "failure"
    /\ disk' = AfterSearch(disk, fetch_exit = 0)
    /\ loaded_samples' = load_test_cases(disk'.sample_id_tests)
    /\ fpc' = "done"
    /\ UNCHANGED <<command_line, by_runner, attempt, boj_details, fetch_exit>>
    /\ UNCHANGED nonFetchVars

\* multi_test_runner.py, lines 246 and 256-258: the 60 seconds of the call
\* are over before the fetcher has exited
SearchTimesOut ==
    /\ by_runner
    /\ fpc \in {"parse", "scrape", "save"}
    /\ search = NoSearch
    /\ search' = "failure"
    /\ disk' = AfterSearch(disk, FALSE)
    /\ loaded_samples' = load_test_cases(disk'.sample_id_tests)
    /\ fpc' = "done"
    /\ UNCHANGED <<command_line, by_runner, attempt, boj_details, fetch_exit>>
    /\ UNCHANGED nonFetchVars

NextFetch ==
    \/ ParseArguments
    \/ Scrape
    \/ GiveUp
    \/ SaveFiles
    \/ SearchReturns
    \/ SearchTimesOut

(***************************************************************************)
(* The verdict of the two runners on the same outcomes:                    *)
(* multi_test_runner.run_single_problem_test and test_runner.main          *)
(***************************************************************************)
\* at most this many test cases in a suite
MaxTests == 3

\* what run_test_suite can return for a suite of at most MaxTests cases
SuiteCounts ==
    {c \in [total : 0..MaxTests, passed : 0..MaxTests, failed : 0..MaxTests] :
        c.total = c.passed + c.failed}

\* the outcomes both runners judge: whether javac succeeded, and what the
\* two suites come to when they are run
Tallies ==
    {[compilation_success |-> c, sample_tests |-> s, generated_tests |-> g] :
        c \in BOOLEAN, s \in SuiteCounts, g \in SuiteCounts}

\* not judged yet
NoVerdict == ""

\* multi_test_runner.py, lines 364-372 and 435-465
multi_test_runner_verdict(outcomes) ==
    IF ~outcomes.compilation_success THEN "COMPILATION_ERROR"
    ELSE Verdict(outcomes.sample_tests, outcomes.generated_tests).result

\* test_runner.py, lines 278-280 and 309-322
test_runner_verdict(outcomes) ==
    IF ~outcomes.compilation_success THEN "COMPILATION_ERROR"
    ELSE LET sample_all_passed == /\ outcomes.sample_tests.total > 0
                                  /\ outcomes.sample_tests.failed = 0
             generated_any_passed == outcomes.generated_tests.passed > 0
         IN  IF sample_all_passed
             THEN IF generated_any_passed \/ outcomes.generated_tests.total = 0
                  THEN "PASS"
                  ELSE "PARTIAL_PASS"
             ELSE IF outcomes.sample_tests.passed > 0 THEN "PARTIAL_PASS"
             ELSE "FAIL"

\* neither runner judges anything
IdleVerdict ==
    /\ tally = [compilation_success |-> FALSE, sample_tests |-> ZeroCounts,
                generated_tests |-> ZeroCounts]
    /\ multi_result = NoVerdict
    /\ overall_result = NoVerdict

\* any outcomes, not judged yet
InitVerdictRun ==
    /\ tally \in Tallies
    /\ multi_result = NoVerdict
    /\ overall_result = NoVerdict

\* run_single_problem_test judges the outcomes
JudgeMulti ==
    /\ multi_result = NoVerdict
    /\ multi_result' = multi_test_runner_verdict(tally)
    /\ UNCHANGED <<tally, overall_result>>
    /\ UNCHANGED nonVerdictVars

\* test_runner.main judges the outcomes
JudgeSingle ==
    /\ overall_result = NoVerdict
    /\ overall_result' = test_runner_verdict(tally)
    /\ UNCHANGED <<tally, multi_result>>
    /\ UNCHANGED nonVerdictVars

NextVerdict ==
    \/ JudgeMulti
    \/ JudgeSingle

(***************************************************************************)
(* multi_test_runner.py: run_test_suite, case by case.                     *)
(* Each test case starts one java process; what the process does is the    *)
(* environment's choice.                                                   *)
(***************************************************************************)
\* test_case['output'] of a test case
ExpectedOutputs == {<<"1">>, <<".">>}

SuiteCases == SeqsUpTo([output : ExpectedOutputs], MaxCases)

\* what subprocess.run(['java', class_name], ..., timeout=5) comes to: the
\* process ends with a return code, the timeout expires, or the call raises
NoStderr == ""
Processes ==
    [kind : {"exited"}, returncode : {0, 1},
     stdout : {<<"1">>, <<"1", "\n">>, <<"1", ".">>, <<".">>},
     stderr : {NoStderr, "Exception in thread main"}]
    \cup [kind : {"timeout", "raised"}, returncode : {-1}, stdout : {<<>>},
          stderr : {NoStderr}]

\* lines 66-90: (success, output, error_msg)
run_java_program(process) ==
    IF process.kind = "timeout"
    THEN [success |-> FALSE, output |-> <<>>, error_msg |-> "timed out (5 s)"]
    ELSE IF process.kind = "raised"
    THEN [success |-> FALSE, output |-> <<>>, error_msg |-> "error while running"]
    ELSE IF process.returncode = 0
    THEN [success |-> TRUE, output |-> strip(process.stdout), error_msg |-> ""]
    ELSE [success |-> FALSE, output |-> <<>>,
          error_msg |-> IF process.stderr # NoStderr THEN process.stderr
                        ELSE "program execution error"]

\* a run_single_test that passes every case whose program exits with 0
run_single_test_AnyOutput(test_case, process, pid) ==
    LET ran == run_java_program(process)
    IN  IF ~ran.success
        THEN [passed |-> FALSE, expected |-> test_case.output, actual |-> <<>>,
              error |-> ran.error_msg]
        ELSE [passed |-> TRUE, expected |-> test_case.output,
              actual |-> ran.output, error |-> ""]

\* lines 131-181
run_single_test(test_case, process, pid) ==
    LET ran == run_java_program(process)
    IN  IF ~ran.success
        THEN [passed |-> FALSE, expected |-> test_case.output, actual |-> <<>>,
              error |-> ran.error_msg]
        ELSE IF compare_outputs(test_case.output, ran.output, pid)
        THEN [passed |-> TRUE, expected |-> test_case.output,
              actual |-> ran.output, error |-> ""]
        ELSE [passed |-> FALSE, expected |-> test_case.output,
              actual |-> ran.output, error |-> "output mismatch"]

\* lines 187-192
NoSuiteResults == [total |-> 0, passed |-> 0, failed |-> 0, details |-> <<>>]

\* no suite is run
IdleSuite ==
    /\ suite_cases = <<>>
    /\ suite_problem = "None"
    /\ spc = "done"
    /\ suite_i = 0
    /\ suite_results = NoSuiteResults
    /\ processes = <<>>

\* run_test_suite is called with any suite
InitSuiteRun ==
    /\ suite_cases \in SuiteCases
    /\ suite_problem \in ProblemIds
    /\ spc = "start"
    /\ suite_i = 0
    /\ suite_results = NoSuiteResults
    /\ processes = <<>>

\* lines 187-196
StartSuite ==
    /\ spc = "start"
    /\ suite_results' = [NoSuiteResults EXCEPT !.total = Len(suite_cases)]
    /\ IF suite_cases = <<>>
       THEN spc' = "done" /\ suite_i' = suite_i
       ELSE spc' = "loop" /\ suite_i' = 1
    /\ UNCHANGED <<suite_cases, suite_problem, processes>>
    /\ UNCHANGED nonSuiteVars

\* lines 198-209: one turn of the loop, and the return after the last one
RunCase ==
    /\ spc = "loop"
    /\ \E process \in Processes :
        LET single == run_single_test(suite_cases[suite_i], process, suite_problem)
        IN  /\ processes' = Append(processes, [index |-> suite_i, process |-> process])
            /\ suite_results' =
                 [suite_results EXCEPT
                    !.details = Append(@, single),
                    !.passed = IF single.passed THEN @ + 1 ELSE @,
                    !.failed = IF single.passed THEN @ ELSE @ + 1]
    /\ IF suite_i = Len(suite_cases)
       THEN spc' = "done" /\ suite_i' = suite_i
       ELSE spc' = "loop" /\ suite_i' = suite_i + 1
    /\ UNCHANGED <<suite_cases, suite_problem>>
    /\ UNCHANGED nonSuiteVars

NextSuite ==
    \/ StartSuite
    \/ RunCase

(***************************************************************************)
(* test.py: the workflow step that records the solved problems of a run in *)
(* README.md, one call of scripts/update_readme.py per solved problem.     *)
(***************************************************************************)
\* the verdicts a detail of test_results_summary.json can hold
SummaryVerdicts == {"PASS", "PARTIAL_PASS", "FAIL", "ERROR", "COMPILATION_ERROR"}

SummaryDetails ==
    SeqsUpTo([result : SummaryVerdicts, problem_id : {"1000", "2000"},
              author : {"alice"}], MaxProblems)

\* test_results_summary.json: missing, or holding a list of details
SummaryFiles ==
    {[exists |-> FALSE, details |-> <<>>]}
        \cup {[exists |-> TRUE, details |-> d] : d \in SummaryDetails}

\* how subprocess.run(cmd, check=True, timeout=30) ends: update_readme.py
\* exits with 0, exits with another status, or runs longer than 30 s
UpdateOutcomes == {"updated", "CalledProcessError", "TimeoutExpired"}

\* a filter that leaves out the failed problems only
IsSuccessful_NotFailed(detail) == detail.result # "FAIL"

\* line 13
IsSuccessful(detail) == detail.result \in {"PASS", "PARTIAL_PASS"}

\* the step does not run
IdleDriver ==
    /\ summary_file = [exists |-> FALSE, details |-> <<>>]
    /\ dpc = "done"
    /\ successful_problems = <<>>
    /\ driver_i = 0
    /\ invocations = <<>>
    /\ driver_exit = NotExited

\* the step starts beside any summary file
InitDriverRun ==
    /\ summary_file \in SummaryFiles
    /\ dpc = "read"
    /\ successful_problems = <<>>
    /\ driver_i = 0
    /\ invocations = <<>>
    /\ driver_exit = NotExited

\* lines 7-16 and 40-42: read the summary and keep the successful problems
ReadSummary ==
    /\ dpc = "read"
    /\ IF ~summary_file.exists
       THEN /\ dpc' = "done"
            /\ driver_exit' = 1
            /\ UNCHANGED <<successful_problems, driver_i>>
       ELSE LET kept == SelectSeq(summary_file.details, IsSuccessful)
            IN  /\ successful_problems' = kept
                /\ IF kept = <<>>
                   THEN dpc' = "done" /\ driver_exit' = 0 /\ driver_i' = driver_i
                   ELSE dpc' = "loop" /\ driver_exit' = driver_exit /\ driver_i' = 1
    /\ UNCHANGED <<summary_file, invocations>>
    /\ UNCHANGED nonDriverVars

\* lines 19-37: one turn of the loop, and the end of the script after the
\* last one
UpdateOne ==
    /\ dpc = "loop"
    /\ \E ended \in UpdateOutcomes :
        invocations' = Append(invocations,
                              [problem_id |-> successful_problems[driver_i].problem_id,
                               author |-> successful_problems[driver_i].author,
                               ended |-> ended])
    /\ IF driver_i = Len(successful_problems)
       THEN dpc' = "done" /\ driver_exit' = 0 /\ driver_i' = driver_i
       ELSE dpc' = "loop" /\ driver_exit' = driver_exit /\ driver_i' = driver_i + 1
    /\ UNCHANGED <<summary_file, successful_problems>>
    /\ UNCHANGED nonDriverVars

NextDriver ==
    \/ ReadSummary
    \/ UpdateOne

(***************************************************************************)
(* update_readme.py: the status table written and read back.               *)
(***************************************************************************)
\* a weekday cell holds at most this many problem IDs
MaxIds == 4

\* the problem IDs of a cell, in the order they were recorded
CellIds == <<"1000", "2000", "3000", "4000", "5000", "6000">>
IdLists == {SubSeq(CellIds, 1, n) : n \in 0..MaxIds}

\* a participant's week: nothing, or problems on one weekday
WeekDatas ==
    {[d \in Weekdays |-> IF d = day THEN ids ELSE <<>>] :
        day \in Weekdays, ids \in IdLists}

\* stats['participants']: participant -> weekday -> problem IDs
Mappings ==
    UNION {[names -> WeekDatas] : names \in (SUBSET {"alice", "bob"}) \ {{}}}

NoStats == [participants |-> NoParticipants, need_reset |-> FALSE]

\* no table is written
IdleTable ==
    /\ mapping = NoParticipants
    /\ table_day = 0
    /\ tpc = "done"
    /\ document = AbsentReadme
    /\ parsed = NoStats

\* any participants, on a day of the week the table is for
InitTableRun ==
    /\ mapping \in Mappings
    /\ table_day \in StartDays
    /\ tpc = "render"
    /\ document = AbsentReadme
    /\ parsed = NoStats

\* lines 289-337, and lines 253-258 for the place of the table in the
\* document: the README of the current week with the table of `mapping`
RenderTable ==
    /\ tpc = "render"
    /\ LET current_week == get_week_info(table_day)
       IN  document' = [exists |-> TRUE, year |-> current_week.year,
                        week_number |-> current_week.week_number,
                        monday |-> current_week.monday,
                        body |-> create_participant_table(mapping) \o <<NL, NL>>]
    /\ tpc' = "parse"
    /\ UNCHANGED <<mapping, table_day, parsed>>
    /\ UNCHANGED nonTableVars

\* lines 151-214
ParseTable ==
    /\ tpc = "parse"
    /\ parsed' = parse_current_week_stats(document, table_day)
    /\ tpc' = "done"
    /\ UNCHANGED <<mapping, table_day, document>>
    /\ UNCHANGED nonTableVars

NextTable ==
    \/ RenderTable
    \/ ParseTable

(***************************************************************************)
(* update_readme.py: get_week_info on two days.                            *)
(***************************************************************************)
\* the days looked at are those of this many weeks, from day 0 on
MaxWeeks == 3
Days == 0..(7 * MaxWeeks - 1)

NoWeek == [week_number |-> 0, year |-> 0, monday |-> 0, sunday |-> 0]

\* get_week_info is not called
IdleWeek ==
    /\ date_a = 0
    /\ date_b = 0
    /\ week_a = NoWeek
    /\ week_b = NoWeek
    /\ computed = {"a", "b"}

\* two runs, on any two days
InitWeekRun ==
    /\ date_a \in Days
    /\ date_b \in Days
    /\ week_a = NoWeek
    /\ week_b = NoWeek
    /\ computed = {}

\* lines 21-46, on the day of the first run
WeekOfFirst ==
    /\ "a" \notin computed
    /\ week_a' = get_week_info(date_a)
    /\ computed' = computed \cup {"a"}
    /\ UNCHANGED <<date_a, date_b, week_b>>
    /\ UNCHANGED nonWeekVars

\* lines 21-46, on the day of the second run
WeekOfSecond ==
    /\ "b" \notin computed
    /\ week_b' = get_week_info(date_b)
    /\ computed' = computed \cup {"b"}
    /\ UNCHANGED <<date_a, date_b, week_a>>
    /\ UNCHANGED nonWeekVars

NextWeek ==
    \/ WeekOfFirst
    \/ WeekOfSecond

(***************************************************************************)
(* scripts/weekly_reset.py                                                 *)
(* session_counter is a module of the environment: whether it can be       *)
(* imported, what is_new_week_start(today) answers and whether             *)
(* get_session_statistics() raises are chosen with the run.                *)
(***************************************************************************)
\* the command line (lines 105-114), and what the run finds
ResetRuns ==
    [force : BOOLEAN, no_backup : BOOLEAN, verbose : BOOLEAN,
     session_counter : BOOLEAN,       \* the import of lines 23-27 succeeds
     is_new_week_start : BOOLEAN,     \* line 31
     readme_exists : BOOLEAN]         \* line 55

NoResetRun ==
    [force |-> FALSE, no_backup |-> FALSE, verbose |-> FALSE,
     session_counter |-> FALSE, is_new_week_start |-> FALSE,
     readme_exists |-> FALSE]

\* weekly_reset.py does not run
IdleReset ==
    /\ reset_run = NoResetRun
    /\ rpc = "done"
    /\ backup_written = FALSE
    /\ readme_written = FALSE
    /\ returned = "nothing"
    /\ reset_exit = NotExited

InitResetRun ==
    /\ reset_run \in ResetRuns
    /\ rpc = "import"
    /\ backup_written = FALSE
    /\ readme_written = FALSE
    /\ returned = "nothing"
    /\ reset_exit = NotExited

\* lines 16-27 and 89-95
ImportSessionCounter ==
    /\ rpc = "import"
    /\ IF reset_run.session_counter
       THEN rpc' = "check" /\ reset_exit' = reset_exit
       ELSE rpc' = "done" /\ reset_exit' = 1
    /\ UNCHANGED <<reset_run, backup_written, readme_written, returned>>
    /\ UNCHANGED nonResetVars

\* lines 29-37: on a day that starts no week main returns, unless --force
CheckNewWeek ==
    /\ rpc = "check"
    /\ IF ~reset_run.is_new_week_start /\ ~reset_run.force
       THEN rpc' = "returned" /\ returned' = "None"
       ELSE rpc' = "backup" /\ returned' = returned
    /\ UNCHANGED <<reset_run, backup_written, readme_written, reset_exit>>
    /\ UNCHANGED nonResetVars

\* lines 39-65: get_session_info, the import of update_readme and the backup;
\* a backup that fails is reported and the run goes on
BackupReadme ==
    /\ rpc = "backup"
    /\ \E raised \in BOOLEAN, copied \in BOOLEAN :
        IF raised
        THEN /\ rpc' = "done"
             /\ reset_exit' = 1
             /\ backup_written' = backup_written
        ELSE /\ rpc' = "write"
             /\ reset_exit' = reset_exit
             /\ backup_written' =
                  (reset_run.readme_exists /\ ~reset_run.no_backup /\ copied)
    /\ UNCHANGED <<reset_run, readme_written, returned>>
    /\ UNCHANGED nonResetVars

\* lines 67-87 and 96-101: the new README.md, the statistics of --verbose,
\* return True
WriteNewReadme ==
    /\ rpc = "write"
    /\ \E written \in BOOLEAN, statistics \in BOOLEAN :
        IF ~written
        THEN /\ rpc' = "done"
             /\ reset_exit' = 1
             /\ UNCHANGED <<readme_written, returned>>
        ELSE /\ readme_written' = TRUE
             /\ IF reset_run.verbose /\ ~statistics
                THEN rpc' = "done" /\ reset_exit' = 1 /\ returned' = returned
                ELSE rpc' = "returned" /\ reset_exit' = reset_exit
                     /\ returned' = "True"
    /\ UNCHANGED <<reset_run, backup_written>>
    /\ UNCHANGED nonResetVars

\* lines 116-123: success = main(); if success: ... else: sys.exit(1)
ExitStatus(success) == IF success = "True" THEN 0 ELSE 1

EndOfScript ==
    /\ rpc = "returned"
    /\ reset_exit' = ExitStatus(returned)
    /\ rpc' = "done"
    /\ UNCHANGED <<reset_run, backup_written, readme_written, returned>>
    /\ UNCHANGED nonResetVars

NextReset ==
    \/ ImportSessionCounter
    \/ CheckNewWeek
    \/ BackupReadme
    \/ WriteNewReadme
    \/ EndOfScript

(***************************************************************************)
(* scripts/send_failure_notification.py, lines 7-42: the message built     *)
(* from the summary that multi_test_runner.py wrote.                       *)
(***************************************************************************)
\* line 40: at most this many details are listed in the message
MaxListed == 5

\* line 20
IsFailure(detail) == detail.result \in {"FAIL", "ERROR"}

\* neither script runs
IdleFailure ==
    /\ run_results = <<>>
    /\ summary_json = NoSummary
    /\ failure_details = <<>>
    /\ listed = <<>>
    /\ fdpc = "done"

\* the runner has judged any problems
InitFailureRun ==
    /\ run_results \in SummaryDetails
    /\ summary_json = NoSummary
    /\ failure_details = <<>>
    /\ listed = <<>>
    /\ fdpc = "summary"

\* multi_test_runner.py, lines 490-511 and the write of main
WriteSummary ==
    /\ fdpc = "summary"
    /\ summary_json' = generate_summary(run_results)
    /\ fdpc' = "message"
    /\ UNCHANGED <<run_results, failure_details, listed>>
    /\ UNCHANGED nonFailureVars

\* send_failure_notification.py, lines 7-42
BuildMessage ==
    /\ fdpc = "message"
    /\ LET kept == SelectSeq(summary_json.details, IsFailure)
       IN  /\ failure_details' = kept
           /\ listed' = SubSeq(kept, 1, IF Len(kept) > MaxListed THEN MaxListed
                                        ELSE Len(kept))
    /\ fdpc' = "done"
    /\ UNCHANGED <<run_results, summary_json>>
    /\ UNCHANGED nonFailureVars

NextFailure ==
    \/ WriteSummary
    \/ BuildMessage

(***************************************************************************)
(* The specifications: one per script, the other scripts' variables idle.  *)
(***************************************************************************)
\* the runner has nothing to do
IdleRunner == InitRunner /\ problems = <<>>

\* no call of compare_outputs is under way
IdleCompare ==
    /\ expected = <<>>
    /\ actual = <<>>
    /\ problem_id = "None"
    /\ outcome = NoOutcome

\* multi_test_runner.py, main
Init == InitRunner /\ IdleCompare /\ IdleReadme /\ IdleExtract /\ IdleNotify /\ IdleFetch
        /\ IdleVerdict
    /\ IdleSuite
    /\ IdleDriver
    /\ IdleTable
    /\ IdleWeek
    /\ IdleReset
    /\ IdleFailure

Next == NextRunner

Spec == Init /\ [][Next]_vars

\* compare_outputs, called with any two texts
InitCompare ==
    /\ IdleRunner
    /\ IdleReadme
    /\ IdleExtract
    /\ IdleNotify
    /\ IdleFetch
    /\ IdleVerdict
    /\ expected \in Texts
    /\ actual \in Texts
    /\ problem_id \in ProblemIds
    /\ outcome = NoOutcome
    /\ IdleSuite
    /\ IdleDriver
    /\ IdleTable
    /\ IdleWeek
    /\ IdleReset
    /\ IdleFailure

SpecCompare == InitCompare /\ [][NextCompare]_vars

\* update_readme.py, run again and again as the days pass
InitReadme ==
    IdleRunner /\ IdleCompare /\ IdleExtract /\ IdleNotify /\ IdleFetch /\ IdleVerdict
    /\ InitReadmeFile
    /\ IdleSuite
    /\ IdleDriver
    /\ IdleTable
    /\ IdleWeek
    /\ IdleReset
    /\ IdleFailure

SpecReadme == InitReadme /\ [][NextReadme]_vars

\* extract_pr_info.py, main
InitExtract ==
    IdleRunner /\ IdleCompare /\ IdleReadme /\ IdleNotify /\ IdleFetch /\ IdleVerdict
    /\ InitExtractRun
    /\ IdleSuite
    /\ IdleDriver
    /\ IdleTable
    /\ IdleWeek
    /\ IdleReset
    /\ IdleFailure

SpecExtract == InitExtract /\ [][NextExtract]_vars

\* a notification script, from its start to its exit
InitNotify ==
    IdleRunner /\ IdleCompare /\ IdleReadme /\ IdleExtract /\ IdleFetch /\ IdleVerdict
    /\ InitNotifyRun
    /\ IdleSuite
    /\ IdleDriver
    /\ IdleTable
    /\ IdleWeek
    /\ IdleReset
    /\ IdleFailure

SpecNotify == InitNotify /\ [][NextNotify]_vars

\* fetch_boj_problem.py, from its start to its exit and the runner's reading
InitFetch ==
    IdleRunner /\ IdleCompare /\ IdleReadme /\ IdleExtract /\ IdleNotify /\ IdleVerdict
    /\ InitFetchRun
    /\ IdleSuite
    /\ IdleDriver
    /\ IdleTable
    /\ IdleWeek
    /\ IdleReset
    /\ IdleFailure

SpecFetch == InitFetch /\ [][NextFetch]_vars

\* the two runners judging the same outcomes
InitVerdict ==
    IdleRunner /\ IdleCompare /\ IdleReadme /\ IdleExtract /\ IdleNotify /\ IdleFetch
    /\ InitVerdictRun
    /\ IdleSuite
    /\ IdleDriver
    /\ IdleTable
    /\ IdleWeek
    /\ IdleReset
    /\ IdleFailure

SpecVerdict == InitVerdict /\ [][NextVerdict]_vars

\* run_test_suite, from its call to its return
InitSuite ==
    IdleRunner /\ IdleCompare /\ IdleReadme /\ IdleExtract /\ IdleNotify /\ IdleFetch
    /\ IdleVerdict /\ InitSuiteRun
    /\ IdleDriver
    /\ IdleTable
    /\ IdleWeek
    /\ IdleReset
    /\ IdleFailure

SpecSuite == InitSuite /\ [][NextSuite]_vars

\* the README step of the workflow, from its start to its exit
InitDriver ==
    IdleRunner /\ IdleCompare /\ IdleReadme /\ IdleExtract /\ IdleNotify /\ IdleFetch
    /\ IdleVerdict /\ IdleSuite /\ InitDriverRun
    /\ IdleTable
    /\ IdleWeek
    /\ IdleReset
    /\ IdleFailure

SpecDriver == InitDriver /\ [][NextDriver]_vars

\* create_participant_table, then parse_current_week_stats
InitTable ==
    IdleRunner /\ IdleCompare /\ IdleReadme /\ IdleExtract /\ IdleNotify /\ IdleFetch
    /\ IdleVerdict /\ IdleSuite /\ IdleDriver /\ InitTableRun
    /\ IdleWeek
    /\ IdleReset
    /\ IdleFailure

SpecTable == InitTable /\ [][NextTable]_vars

\* get_week_info, called on two days
InitWeek ==
    IdleRunner /\ IdleCompare /\ IdleReadme /\ IdleExtract /\ IdleNotify /\ IdleFetch
    /\ IdleVerdict /\ IdleSuite /\ IdleDriver /\ IdleTable /\ InitWeekRun
    /\ IdleReset
    /\ IdleFailure

SpecWeek == InitWeek /\ [][NextWeek]_vars

\* weekly_reset.py, from its start to its exit
InitReset ==
    IdleRunner /\ IdleCompare /\ IdleReadme /\ IdleExtract /\ IdleNotify /\ IdleFetch
    /\ IdleVerdict /\ IdleSuite /\ IdleDriver /\ IdleTable /\ IdleWeek
    /\ InitResetRun
    /\ IdleFailure

SpecReset == InitReset /\ [][NextReset]_vars

\* the summary of a run and the failure message built from it
InitFailure ==
    IdleRunner /\ IdleCompare /\ IdleReadme /\ IdleExtract /\ IdleNotify /\ IdleFetch
    /\ IdleVerdict /\ IdleSuite /\ IdleDriver /\ IdleTable /\ IdleWeek /\ IdleReset
    /\ InitFailureRun

SpecFailure == InitFailure /\ [][NextFailure]_vars

(***************************************************************************)
(* Claims about multi_test_runner.py, checked under Spec.                  *)
(***************************************************************************)
Finished == 1..Len(results)

Contains(seq, x) == \E i \in 1..Len(seq) : seq[i] = x

\* C1: for every problem whose code file exists, the verdict is
\* COMPILATION_ERROR if and only if compile_java_code reported failure,
\* whatever the test files hold.
C1_CompilationErrorIffCompileFailed ==
    \A i \in Finished :
        history[i].code_exists =>
            (results[i].result = "COMPILATION_ERROR" <=> history[i].compiled = "failed")

\* a failed compile was judged COMPILATION_ERROR, and a problem that compiled
\* and ran sample tests was judged something else
C1_Witness ==
    /\ Len(results) = 2
    /\ history[1].compiled = "failed"
    /\ results[1].result = "COMPILATION_ERROR"
    /\ history[2].compiled = "ok"
    /\ results[2].sample_tests.total > 0

\* the verdict the specification gives for the counts of the two suites
SpecifiedVerdictHolds(verdict, st, sp, gt, gp) ==
    /\ (st = 0 /\ gt = 0) => verdict = "PARTIAL_PASS"
    /\ (st > 0 /\ sp = st /\ (gt = 0 \/ gp > 0)) => verdict = "PASS"
    /\ (st > 0 /\ sp = st /\ gt > 0 /\ gp = 0) => verdict = "PARTIAL_PASS"
    /\ (sp > 0 /\ sp < st) => verdict = "PARTIAL_PASS"
    /\ (st > 0 /\ sp = 0) => verdict = "FAIL"
    /\ (st = 0 /\ gt > 0 /\ gp > 0) => verdict = "PARTIAL_PASS"
    /\ (st = 0 /\ gt > 0 /\ gp = 0) => verdict = "FAIL"

\* the problem compiled and its two suites were run and judged
Judged(i) == history[i].compiled = "ok" /\ ~Contains(history[i].steps, "raise")

C3_CompileFailureShortCircuits ==
    /\ obs.compiled = "failed" => obs.steps = <<"exists", "javac">>
    /\ \A i \in Finished :
        history[i].compiled = "failed" =>
            /\ history[i].steps = <<"exists", "javac">>
            /\ results[i].sample_tests = ZeroCounts
            /\ results[i].generated_tests = ZeroCounts

\* a problem that failed to compile was returned, and the next problem went
\* on to execute a test case
C3_Witness ==
    /\ Len(results) = 2
    /\ history[1].compiled = "failed"
    /\ results[1].result = "COMPILATION_ERROR"
    /\ Contains(history[2].steps, "java")

Succeeded(r) == r.result \in {"PASS", "PARTIAL_PASS"}

\* C4: overall_success is true iff at least one result is PASS or PARTIAL_PASS,
\* and main exits with status 0 exactly when overall_success is true, with
\* status 1 otherwise.
C4_OverallSuccessAndExitCode ==
    pc = "exited" =>
        /\ summary # NoSummary =>
              (summary.overall_success <=>
                   \E i \in 1..Len(summary.details) : Succeeded(summary.details[i]))
        /\ exit_code = 0 <=> summary.overall_success
        /\ exit_code = 1 <=> ~summary.overall_success

\* a run whose only success is a PARTIAL_PASS exited with status 0
C4_Witness ==
    /\ pc = "exited"
    /\ exit_code = 0
    /\ Len(summary.details) = 2
    /\ summary.details[1].result = "FAIL"
    /\ summary.details[2].result = "PARTIAL_PASS"

\* C5: for a non-empty list of n problems the summary holds exactly n results,
\* one per input problem and in input order, whatever happened to single
\* problems (missing code file, compilation error, failed search or generation,
\* an exception).
C5_OneResultPerProblem ==
    (pc = "exited" /\ problems # <<>>) =>
        /\ summary # NoSummary
        /\ summary.total_problems = Len(problems)
        /\ Len(summary.details) = Len(problems)
        /\ \A i \in 1..Len(problems) :
              /\ summary.details[i].problem_id = problems[i].problem_id
              /\ summary.details[i].author = problems[i].author

\* the first problem raised an exception, the second had no code file, and
\* both are in the summary
C5_Witness ==
    /\ pc = "exited"
    /\ Len(problems) = 2
    /\ Len(summary.details) = 2
    /\ Contains(summary.details[1].errors, "exception")
    /\ Contains(summary.details[2].errors, "no_code_file")

(***************************************************************************)
(* Claims about compare_outputs, checked under SpecCompare.                *)
(***************************************************************************)
\* the positions of s that hold no whitespace
Inked(s) == {i \in 1..Len(s) : s[i] \notin Whitespace}
FirstOf(S) == CHOOSE i \in S : \A j \in S : i <= j
LastOf(S) == CHOOSE i \in S : \A j \in S : j <= i

\* s without its trailing whitespace
WithoutTrailing(s) ==
    IF Inked(s) = {} THEN <<>> ELSE SubSeq(s, 1, LastOf(Inked(s)))

\* s without its leading and trailing whitespace
WithoutSurrounding(s) ==
    IF Inked(s) = {} THEN <<>> ELSE SubSeq(s, FirstOf(Inked(s)), LastOf(Inked(s)))

\* the text with the trailing whitespace of the output and of each line
\* removed, the lines joined with one newline
TrailingTrimmed(s) ==
    LET lines == split(WithoutTrailing(s), "\n")
    IN  join([i \in 1..Len(lines) |-> WithoutTrailing(lines[i])], "\n")

\* the text with the leading and trailing whitespace of the output and of
\* each line removed, the lines joined with one newline
SurroundTrimmed(s) ==
    LET lines == split(WithoutSurrounding(s), "\n")
    IN  join([i \in 1..Len(lines) |-> WithoutSurrounding(lines[i])], "\n")

\* C6 as stated: for a problem that is not on the floating-point allow-list,
\* compare_outputs is true if and only if the two texts are equal after
\* removing the trailing whitespace of each line (the trailing newline of the
\* output included) and joining the lines with a single newline.
C6_TrueIffEqualWithoutTrailingWhitespace ==
    (outcome.returned /\ problem_id \notin float_problems)
        => (outcome.value <=> TrailingTrimmed(expected) = TrailingTrimmed(actual))

\* C6, amended: for a problem that is not on the floating-point allow-list,
\* compare_outputs is true if and only if the two texts are equal after
\* removing the leading and the trailing whitespace of the whole output and of
\* each line and joining the lines with a single newline.
C6_TrueIffEqualWithoutSurroundingWhitespace ==
    (outcome.returned /\ problem_id \notin float_problems)
        => (outcome.value <=> SurroundTrimmed(expected) = SurroundTrimmed(actual))

\* a call off the allow-list that returned true for " 1" against "1\n"
C6_Witness ==
    /\ outcome.returned
    /\ problem_id \notin float_problems
    /\ expected = <<" ", "1">>
    /\ actual = <<"1", "\n">>
    /\ outcome.value

\* C7: the numeric fallback is used only for a problem ID on the allow-list
\* {1008, 1003, 10869, 2914} whose normalized texts differ: for every other
\* problem ID, and for no ID, the result is normalized string equality, and
\* on an allow-listed problem where one of the normalized texts is no number
\* the result is that of the string comparison (false).
C7_NumericFallbackOnlyOnAllowList ==
    outcome.returned =>
        LET expected_norm == normalize_output(expected)
            actual_norm == normalize_output(actual)
            unparsable == ~float(expected_norm).ok \/ ~float(actual_norm).ok
        IN  /\ problem_id \notin {"1008", "1003", "10869", "2914"}
                => (outcome.value <=> expected_norm = actual_norm)
            /\ (problem_id \in {"1008", "1003", "10869", "2914"} /\ unparsable)
                => (outcome.value <=> expected_norm = actual_norm)

\* a call on the allow-list whose texts differ, the expected one being no
\* number, that returned false
C7_Witness ==
    /\ outcome.returned
    /\ problem_id = "1008"
    /\ normalize_output(expected) # normalize_output(actual)
    /\ ~float(normalize_output(expected)).ok
    /\ float(normalize_output(actual)).ok
    /\ ~outcome.value

(***************************************************************************)
(* Claims about update_readme.py, checked under SpecReadme.                *)
(* The status table of a document is read as a reader of README.md sees    *)
(* it: a line of the table is the row the line begins with, and the table  *)
(* ends at the first line that begins with no row.                         *)
(***************************************************************************)
\* the text after the first newline
RECURSIVE AfterNewline(_)
AfterNewline(body) ==
    IF body = <<>> THEN <<>>
    ELSE IF Head(body).kind = "nl" THEN Tail(body)
    ELSE AfterNewline(Tail(body))

\* the rows of the status table, one per line
RECURSIVE ShownRows(_)
ShownRows(body) ==
    IF body = <<>> \/ Head(body).kind = "nl" THEN <<>>
    ELSE <<Head(body)>> \o ShownRows(AfterNewline(body))

\* the problem IDs the table lists for a participant on a weekday: those of
\* the row under the participant's check row, none without such a row
ShownIds(file, name, d) ==
    LET rows == ShownRows(file.body)
        at == {i \in 1..(Len(rows) - 1) : rows[i].name = name}
    IN  IF at = {} THEN <<>> ELSE rows[(CHOOSE i \in at : TRUE) + 1].cells[d].ids

Occurrences(ids, id) == Cardinality({k \in 1..Len(ids) : ids[k] = id})

\* the last run applied its fact to a README of the current week
AppliedWithinWeek == last.applied /\ ~last.need_reset

\* C8 as stated: applied to a README of the current week, a fact applied
\* twice yields the same status table, cell by cell, as the fact applied once
\* (the second of two successive runs with the same fact changes no cell).
C8_UpdateTwiceIsUpdateOnce ==
    last.repeated => ShownRows(readme.body) = ShownRows(last.before.body)

\* C9 as stated: after any sequence of runs no cell of the status table
\* lists a problem ID more than once, and after the same fact was applied
\* twice the cell of that fact lists its problem ID exactly once.
C9_NoDuplicateAndOneOccurrence ==
    /\ \A name \in {"alice", "bob"}, d \in Weekdays, id \in ReadmeProblems :
           Occurrences(ShownIds(readme, name, d), id) <= 1
    /\ last.repeated =>
           Occurrences(ShownIds(readme, last.fact.author,
                                get_weekday_from_date(last.fact.submission_date)),
                       last.fact.problem_id) = 1

\* C10 as stated: within a week a run changes only the cell of its author
\* on the weekday of its submission date, which gains the problem ID if it
\* was absent; every other cell of every participant lists the same problem
\* IDs after the run as before it.
C10_OnlyTheCellOfTheFactChanges ==
    AppliedWithinWeek =>
        \A name \in {"alice", "bob"}, d \in Weekdays :
            LET before == ShownIds(last.before, name, d)
                after == ShownIds(readme, name, d)
            IN  IF /\ name = last.fact.author
                   /\ d = get_weekday_from_date(last.fact.submission_date)
                   /\ Occurrences(before, last.fact.problem_id) = 0
                THEN after = Append(before, last.fact.problem_id)
                ELSE after = before

\* the participants the status table has a check row for
ShownParticipants(file) ==
    LET rows == ShownRows(file.body)
    IN  {rows[i].name : i \in {k \in 1..Len(rows) : rows[k].kind = "check"}}

\* the last run loaded a README recorded for the week before the week of its
\* fact's date
RolledOver ==
    /\ last.applied
    /\ last.before.exists
    /\ get_week_info(last.fact.submission_date).monday = last.before.monday + 7

RowsAt(body) == {i \in 1..Len(body) : body[i].kind # "nl"}

\* the text between the last row of the table and the "---" under it: the
\* newlines that follow the last row, the one that ends the date row
\* included when no row follows the date row.  The text from "---" on is
\* fixed.
TextAfterTable(file) ==
    IF RowsAt(file.body) = {}
    THEN <<NL>> \o file.body
    ELSE SubSeq(file.body, LastOf(RowsAt(file.body)) + 1, Len(file.body))

\* the text before the table, which varies with the week header only
TextBeforeTable(file) ==
    [year |-> file.year, week_number |-> file.week_number, monday |-> file.monday]

\* C12 as stated: a run changes the table region only; the text after the
\* table, separator included, is the same after the run as before it, and so
\* is the text before the table when the run stays within the README's week.
C12_TextAroundTheTableIsKept ==
    last.applied =>
        /\ TextAfterTable(readme) = TextAfterTable(last.before)
        /\ ~last.need_reset => TextBeforeTable(readme) = TextBeforeTable(last.before)

(***************************************************************************)
(* Claims about extract_pr_info.py, checked under SpecExtract.             *)
(***************************************************************************)
\* filter_author_files has returned
Filtered == changed_files # <<>> /\ epc \in {"select", "save", "done"}

\* the records made from a path
RecordsOf(path) == {i \in 1..Len(author_files) : author_files[i].code_file = path}

\* the paths of the files the pull request changed
ChangedPaths == {gh.files[i].filename : i \in 1..Len(gh.files)}

\* the digits a folder name begins with
NumericId(folder) ==
    LET ends == {k \in 0..Len(folder) : \A i \in 1..k : IsDigit(folder[i])}
    IN  SubSeq(folder, 1, LastOf(ends))

\* Main.<ext>
MainFiles == {<<"Main.java">>, <<"Main.py">>}

\* <author>/<problem_id>/Main.<ext>, the folder being a number that a
\* descriptive suffix may follow
LooseConvention(path) ==
    /\ Len(path) = 3
    /\ path[1] # <<>>
    /\ NumericId(path[2]) # <<>>
    /\ path[3] \in MainFiles

\* <author>/<problem_id>/Main.java, the folder being a number and nothing else
StrictConvention(path) ==
    /\ Len(path) = 3
    /\ path[1] # <<>>
    /\ NumericId(path[2]) = path[2]
    /\ path[2] # <<>>
    /\ path[3] = <<"Main.java">>

\* every record names the first component of its path as the author and the
\* number of its folder as the problem
RecordsNameTheirPath ==
    \A i \in 1..Len(author_files) :
        /\ author_files[i].author = author_files[i].code_file[1]
        /\ author_files[i].problem_id = NumericId(author_files[i].code_file[2])

\* C13 as stated: a changed file yields a record exactly if its path is
\* <author>/<problem_id>/Main.<ext>, where a descriptive suffix may follow the
\* number of the folder; the record names the first component and the number.
C13_RecordIffLooseConvention ==
    Filtered =>
        /\ \A path \in ChangedPaths : RecordsOf(path) # {} <=> LooseConvention(path)
        /\ RecordsNameTheirPath

\* C13 as the code has it: a changed file yields a record exactly if its path
\* is <author>/<digits>/Main.java and <author> is the author of the pull
\* request; the record names the first component and the folder; every other
\* path is passed over and the files around it are still processed.
C13_RecordIffStrictConventionOfAuthor ==
    Filtered =>
        /\ \A path \in ChangedPaths :
               RecordsOf(path) # {} <=> (StrictConvention(path) /\ path[1] = pr_author)
        /\ RecordsNameTheirPath

\* a folder with a suffix is passed over and the file after it yields a record
C13_Witness ==
    /\ Filtered
    /\ Len(gh.files) = 2
    /\ gh.files[1].filename = Path("alice", <<"1", "0", "0", "0", "_two_sum">>, "Main.java")
    /\ gh.files[2].filename = Path("alice", <<"1", "0", "0", "0">>, "Main.java")
    /\ Len(author_files) = 1
    /\ author_files[1].author = <<"alice">>
    /\ author_files[1].problem_id = <<"1", "0", "0", "0">>

\* the range a problem number is to lie in
SaneIds == 1..30000

\* C14: a path whose problem number lies outside 1..30000 produces no record
\* and is never selected as the primary problem.
C14_OutOfRangeIdIsRejected ==
    /\ \A i \in 1..Len(author_files) : int(author_files[i].problem_id) \in SaneIds
    /\ primary_problem # NoProblem => int(primary_problem.problem_id) \in SaneIds
    /\ outputs.has_valid_problems = "true" => int(outputs.problem_id) \in SaneIds

\* the (author, problem_id) pairs of the records
RecordPairs ==
    {<<author_files[i].author, author_files[i].problem_id>> : i \in 1..Len(author_files)}

\* C15: the records hold at most one record for each (author, problem_id)
\* pair, and total_problems_count counts each pair once.
C15_OneRecordPerAuthorAndProblem ==
    /\ \A i, j \in 1..Len(author_files) :
           (/\ author_files[i].author = author_files[j].author
            /\ author_files[i].problem_id = author_files[j].problem_id) => i = j
    /\ outputs.total_problems_count # NotSet =>
           outputs.total_problems_count = Cardinality(RecordPairs)

\* select_primary_problem has returned
Selected == author_files # <<>> /\ epc \in {"save", "done"}

\* the positions of the added files
AddedAt(files) == {i \in 1..Len(files) : files[i].status = "added"}

\* the same files in every order
Reorderings(files) ==
    {[i \in 1..Len(files) |-> files[p[i]]] : p \in Permutations(1..Len(files))}

\* no two files have the same problem number
DistinctIds(files) ==
    \A i, j \in 1..Len(files) :
        int(files[i].problem_id) = int(files[j].problem_id) => i = j

\* C16: select_primary_problem returns None for the empty list and otherwise
\* one of the files: the added file with the numerically largest problem
\* number if a file was added, else the file with the numerically largest
\* problem number; if the numbers are distinct, every order of the list gives
\* the same file.
C16_PrimaryIsLargestAddedElseLargest ==
    /\ select_primary_problem(<<>>) = NoProblem
    /\ Selected =>
        LET candidates == IF AddedAt(author_files) # {}
                          THEN AddedAt(author_files)
                          ELSE 1..Len(author_files)
        IN  /\ \E i \in candidates : author_files[i] = primary_problem
            /\ \A j \in candidates :
                   int(author_files[j].problem_id) <= int(primary_problem.problem_id)
            /\ DistinctIds(author_files) =>
                   \A files \in Reorderings(author_files) :
                       select_primary_problem(files) = primary_problem

\* an added file is chosen although a modified file has the larger number
C16_Witness ==
    /\ Selected
    /\ Len(author_files) = 2
    /\ author_files[1].status = "modified"
    /\ author_files[1].problem_id = <<"2", "0", "0", "0">>
    /\ author_files[2].status = "added"
    /\ primary_problem = author_files[2]
    /\ primary_problem.problem_id = <<"1", "0", "0", "0">>

\* the changed files that are problems of the pull request's author
ValidProblems ==
    {i \in 1..Len(gh.files) :
        /\ StrictConvention(gh.files[i].filename)
        /\ gh.files[i].filename[1] = gh.login}

\* the author is known and the pull request has no valid problem: the listing
\* failed, or no changed file is a Main.java of the author at a valid path
ZeroValidProblems ==
    /\ gh.env_set
    /\ gh.login # NoLogin
    /\ ~gh.files_ok \/ ValidProblems = {}

\* C17: when the author is known and the pull request has no valid problem,
\* main sets problem_id=0000 and has_valid_problems=false, writes no
\* pr_analysis.json and ends with exit status 0.
C17_NoValidProblemGivesSentinelAndExitZero ==
    ZeroValidProblems =>
        /\ ~pr_analysis
        /\ extract_exit \in {NotExited, 0}
        /\ epc \notin {"select", "save"}
        /\ epc = "done" =>
               /\ outputs.problem_id = DummyId
               /\ outputs.has_valid_problems = "false"
               /\ outputs.author = pr_author
               /\ extract_exit = 0

\* the only Main.java of the pull request is another member's
C17_Witness ==
    /\ ZeroValidProblems
    /\ epc = "done"
    /\ changed_files # <<>>
    /\ pr_author = <<"alice">>
    /\ changed_files[1].filename = Path("bob", <<"1", "0", "0", "0">>, "Main.java")
    /\ outputs.has_valid_problems = "false"
    /\ extract_exit = 0

(***************************************************************************)
(* Claims about the notification scripts, checked under SpecNotify.        *)
(***************************************************************************)
\* the success script has resolved its destination
Resolved == run.script = "success" /\ run.built /\ npc \in {"deliver", "done"}

\* a personal webhook URL was handed over as the third argument
ArgGiven == run.argv.personal_webhook_url \notin {None, ""}

\* the value of <AUTHOR>_MATTERMOST_URL, if an author is given
AuthorUrl ==
    IF run.argv.pr_author \in {None, ""} THEN NoUrl(None)
    ELSE environ_get(run.environ, PersonalKey(upper[run.argv.pr_author]))

SharedUrl == environ_get(run.environ, SharedKey)

\* C18: the success notification goes to the personal URL argument if one is
\* given; else to <AUTHOR uppercased>_MATTERMOST_URL if the author is given
\* and the variable is set; else to MATTERMOST_WEBHOOK_URL; if none of them
\* resolves, nothing is delivered and the script exits with status 0.
C18_DestinationByPriority ==
    Resolved =>
        /\ ArgGiven => webhook_url = ArgUrl
        /\ ~ArgGiven /\ IsUrl(AuthorUrl) => webhook_url = AuthorUrl
        /\ ~ArgGiven /\ ~IsUrl(AuthorUrl) /\ IsUrl(SharedUrl) => webhook_url = SharedUrl
        /\ ~ArgGiven /\ ~IsUrl(AuthorUrl) /\ ~IsUrl(SharedUrl) =>
               /\ deliveries = <<>>
               /\ npc = "done"
               /\ notify_exit = 0
        /\ Len(deliveries) <= 1
        /\ \A i \in 1..Len(deliveries) : deliveries[i].webhook_url = webhook_url
        /\ npc = "done" /\ IsUrl(webhook_url) => Len(deliveries) = 1

\* no argument, alice's variable and the shared one both set: alice's is used
C18_Witness ==
    /\ Resolved
    /\ npc = "done"
    /\ ~ArgGiven
    /\ run.argv.pr_author = "alice"
    /\ IsUrl(SharedUrl)
    /\ Len(deliveries) = 1
    /\ deliveries[1].webhook_url = UrlOf(PersonalKey("ALICE"))

\* send_notification.py has ended
NotificationDone == run.script = "notification" /\ npc = "done"

\* the *_MATTERMOST_URL variables that hold a URL
Configured ==
    {key \in KeySet : key[Len(key)] = "_MATTERMOST_URL" /\ run.environ[key] = "url"}

\* the deliveries attempted to the URL of a variable
AttemptsTo(key) ==
    {i \in 1..Len(deliveries) : deliveries[i].webhook_url = UrlOf(key)}

\* the deliveries that succeeded
Succeeded200 == {i \in 1..Len(deliveries) : deliveries[i].outcome \in {"200", "ok"}}

\* every configured destination was attempted once, and nothing else was
EachAttemptedOnce ==
    /\ \A key \in Configured : Cardinality(AttemptsTo(key)) = 1
    /\ Len(deliveries) = Cardinality(Configured)

\* the exit status as the deliveries give it
ExitReflectsDeliveries ==
    /\ ~run.dry_run => EachAttemptedOnce
    /\ run.dry_run => deliveries = <<>>
    /\ notify_exit = 0 <=> (run.dry_run \/ Configured = {} \/ Succeeded200 # {})
    /\ notify_exit # 0 <=> (~run.dry_run /\ Configured # {} /\ Succeeded200 = {})

NotificationFailed ==
    /\ npc = "done"
    /\ \/ ~run.built
       \/ \E i \in 1..Len(deliveries) : i \notin Succeeded200

\* C20: none of the three scripts ends with a non-zero exit status because a
\* delivery failed or the notification could not be built.
C20_NotificationFailureNeverFailsTheRun ==
    NotificationFailed => notify_exit = 0

(***************************************************************************)
(* Claims about fetch_boj_problem.py, checked under SpecFetch.             *)
(***************************************************************************)
\* the fetcher was started with --problem-id and has exited
FetcherRan == Accepted(command_line) /\ fetch_exit # NotExited

\* every attempt of the run failed
EveryScrapeFailed == attempt = max_retries /\ ~boj_details.found

\* the details were found and writing them raised IOError
WriteFailed == boj_details.found /\ fetch_exit = 1

\* C21: every run of the fetcher for a problem ID ends with problem_info.json
\* and sample_tests.json written (the disk permitting); when every attempt
\* failed, the sample file holds an empty list of test cases.
C21_BothFilesWrittenOnEveryRun ==
    FetcherRan /\ ~WriteFailed =>
        /\ disk.problem_info.present
        /\ disk.sample_tests.present
        /\ EveryScrapeFailed => disk.sample_tests = File(<<>>)

\* C28: the runner's command line is accepted by the fetcher, and when the
\* search reports success the samples the runner loads are the samples the
\* fetcher extracted, read from the file the fetcher wrote.
C28_HandOffIsConsistent ==
    by_runner =>
        /\ fetch_exit # UsageError
        /\ search = "success" =>
               /\ loaded_samples = boj_details.samples
               /\ disk.sample_id_tests = disk.sample_tests

(***************************************************************************)
(* Claims about the verdicts, checked under SpecVerdict.                   *)
(***************************************************************************)
\* C22: the criteria the README publishes hold for the runner's verdicts: a
\* problem is judged PASS only if every sample test and every generated test
\* passed, and FAIL only if every executed test failed.
C22_VerdictsMeetPublishedCriteria ==
    /\ multi_result = "PASS" =>
           tally.sample_tests.failed = 0 /\ tally.generated_tests.failed = 0
    /\ multi_result = "FAIL" =>
           tally.sample_tests.passed = 0 /\ tally.generated_tests.passed = 0

\* C25: on the same compilation outcome and the same suite counts the
\* single-problem runner and the multi-problem runner give the same verdict.
C25_BothRunnersGiveTheSameVerdict ==
    multi_result # NoVerdict /\ overall_result # NoVerdict =>
        multi_result = overall_result

(***************************************************************************)
(* Claims about run_test_suite, checked under SpecSuite.                   *)
(***************************************************************************)
SuiteReturned == spc = "done" /\ suite_results.total = Len(suite_cases)

\* the i-th process ended with status 0 before the timeout
ExitedWithZero(i) ==
    processes[i].process.kind = "exited" /\ processes[i].process.returncode = 0

\* compare_outputs accepted what the i-th process wrote
OutputAccepted(i) ==
    compare_outputs(suite_cases[i].output, strip(processes[i].process.stdout),
                    suite_problem)

\* the processes started so far ran the first cases of the suite, one each,
\* in the order of the suite
EachCaseOnceInOrder ==
    /\ Len(processes) <= Len(suite_cases)
    /\ \A i \in 1..Len(processes) : processes[i].index = i
    /\ Len(suite_results.details) = Len(processes)

\* C23: run_test_suite runs every case of the suite exactly once and in
\* order, whatever earlier cases did; when it returns, passed + failed =
\* total = the number of detail records = the number of cases, a case is
\* marked passed exactly if its process exited with 0 within the timeout and
\* compare_outputs accepted its output, and a timeout or a non-zero exit is
\* marked failed with a non-empty error message.
C23_EveryCaseRunOnceAndCounted ==
    /\ EachCaseOnceInOrder
    /\ SuiteReturned =>
        /\ Len(processes) = Len(suite_cases)
        /\ suite_results.total = Len(suite_cases)
        /\ suite_results.passed + suite_results.failed = suite_results.total
        /\ Len(suite_results.details) = suite_results.total
        /\ suite_results.passed =
             Cardinality({i \in 1..Len(suite_cases) : suite_results.details[i].passed})
        /\ \A i \in 1..Len(suite_cases) :
            /\ suite_results.details[i].passed
                 <=> (ExitedWithZero(i) /\ OutputAccepted(i))
            /\ ~ExitedWithZero(i) =>
                 /\ ~suite_results.details[i].passed
                 /\ suite_results.details[i].error # ""

\* a suite of two cases has returned: the first case timed out or exited
\* with a non-zero status, the second one ran all the same and passed
C23_Witness ==
    /\ SuiteReturned
    /\ Len(suite_cases) = 2
    /\ ~ExitedWithZero(1)
    /\ suite_results.details[2].passed
    /\ suite_results.passed = 1
    /\ suite_results.failed = 1

(***************************************************************************)
(* Claims about the README step (test.py), checked under SpecDriver.       *)
(***************************************************************************)
\* the positions of the summary's details that hold PASS or PARTIAL_PASS,
\* in increasing order
RECURSIVE SuccessfulPositions(_, _)
SuccessfulPositions(details, from) ==
    IF from > Len(details) THEN <<>>
    ELSE IF details[from].result = "PASS" \/ details[from].result = "PARTIAL_PASS"
    THEN <<from>> \o SuccessfulPositions(details, from + 1)
    ELSE SuccessfulPositions(details, from + 1)

DriverDone == dpc = "done" /\ driver_exit = 0

\* C24: the step calls update_readme.py once for each detail whose verdict
\* is PASS or PARTIAL_PASS, in the order of the summary, and never for a
\* detail with FAIL, ERROR or COMPILATION_ERROR; a call that fails or times
\* out does not keep the later calls from being made.
C24_OneUpdatePerSuccessfulProblem ==
    LET due == SuccessfulPositions(summary_file.details, 1)
    IN  /\ Len(invocations) <= Len(due)
        /\ \A k \in 1..Len(invocations) :
            /\ invocations[k].problem_id = summary_file.details[due[k]].problem_id
            /\ invocations[k].author = summary_file.details[due[k]].author
        /\ DriverDone => Len(invocations) = Len(due)

\* the step has ended after two calls, of which the first one failed or
\* timed out
C24_Witness ==
    /\ DriverDone
    /\ Len(invocations) = 2
    /\ invocations[1].ended # "updated"
    /\ invocations[1].problem_id # invocations[2].problem_id

(***************************************************************************)
(* Claims about the status table written and read back, checked under      *)
(* SpecTable.                                                              *)
(***************************************************************************)
TableParsed == tpc = "done" /\ document.exists

\* C26: parse_current_week_stats applied to a README of the current week
\* that holds create_participant_table(mapping) returns the mapping: every
\* problem ID in the row of its participant and under its weekday, cells
\* of more than 3 IDs included.
C26_ParseInvertsRender ==
    TableParsed => /\ ~parsed.need_reset
                   /\ parsed.participants = mapping

(***************************************************************************)
(* Claims about get_week_info, checked under SpecWeek.                     *)
(***************************************************************************)
BothWeeksComputed == computed = {"a", "b"} /\ week_a # NoWeek /\ week_b # NoWeek

\* the Monday of the Monday-Sunday week a day lies in
MondayOf(day) == day - (day % 7)

\* the week computed for a day is the Monday-Sunday week the day lies in
WeekContains(week, day) ==
    /\ week.monday <= day
    /\ day <= week.sunday
    /\ week.sunday = week.monday + 6
    /\ week.monday % 7 = 0

\* C27: for every date, monday <= today <= sunday, sunday = monday + 6 and
\* monday is a Monday; two dates of the same Monday-Sunday week give the
\* same (year, week_number), the week of 31 December and 1 January
\* included, so that a later run of the same week finds the week of the
\* README unchanged.
C27_OneWeekOneYearAndNumber ==
    BothWeeksComputed =>
        /\ WeekContains(week_a, date_a)
        /\ WeekContains(week_b, date_b)
        /\ MondayOf(date_a) = MondayOf(date_b) =>
             /\ week_a.year = week_b.year
             /\ week_a.week_number = week_b.week_number

(***************************************************************************)
(* Claims about weekly_reset.py, checked under SpecReset.                  *)
(***************************************************************************)
\* the run ended at the return of line 35
ResetSkipped ==
    /\ rpc = "done"
    /\ reset_run.session_counter
    /\ ~reset_run.is_new_week_start
    /\ ~reset_run.force

\* C29: a run on a day that starts no week, without --force, is a no-op
\* that succeeds: it writes neither a backup nor README.md, and the process
\* exits with status 0.
C29_SkipIsANoOpWithExitZero ==
    ResetSkipped => /\ ~backup_written
                    /\ ~readme_written
                    /\ reset_exit = 0

(***************************************************************************)
(* Claims about the failure message, checked under SpecFailure.            *)
(***************************************************************************)
MessageBuilt == fdpc = "done" /\ summary_json.details = run_results

\* C30: every problem counted in failed_problems or error_problems of the
\* summary (FAIL, COMPILATION_ERROR, ERROR) has its entry in failure_details
\* before the list is cut to its first 5 entries: the number of entries is
\* failed_problems + error_problems.
C30_EveryCountedFailureHasItsDetail ==
    MessageBuilt =>
        /\ Len(failure_details)
             = summary_json.failed_problems + summary_json.error_problems
        /\ \A i \in 1..Len(run_results) :
             run_results[i].result \in {"FAIL", "COMPILATION_ERROR", "ERROR"}
                 => \E k \in 1..Len(failure_details) :
                        failure_details[k].problem_id = run_results[i].problem_id

====
